---- MODULE Spec2Model ----
(***************************************************************************)
(* Group escrow contract (escrow_contract/contract/src/main.rs).           *)
(*                                                                         *)
(* The contract's persistent storage (dictionaries, named keys), the       *)
(* contract purse and the receipt (sCSPR) ledger of the token contract     *)
(* are the state.  Every entry point is a function from a world (the       *)
(* state as a record) and its arguments to an outcome: the world after     *)
(* the call, the user error it reverted with (0: none), the external       *)
(* calls it issued and what it returned.  runtime::revert discards every   *)
(* effect of the invocation, so a reverted call's world is the world it    *)
(* started from.                                                           *)
(***************************************************************************)
EXTENDS Integers, Sequences, FiniteSets, TLC

\* ------------------------------------------------------------------------
\* Bounds of the model
\* ------------------------------------------------------------------------

\* Escrows created in one behaviour.
MaxEscrows == 2

\* Receipts the ledger credits as yield in one behaviour.
MaxAccrued == 50

\* The block time never exceeds MaxBlocktime.
MaxBlocktime == 1

\* ------------------------------------------------------------------------
\* Program constants
\* ------------------------------------------------------------------------

ERROR_MIN_PARTICIPANTS == 100
ERROR_ESCROW_COMPLETE == 101
ERROR_ALREADY_JOINED == 102
ERROR_INCORRECT_AMOUNT == 103
ERROR_ESCROW_NOT_COMPLETE == 104
ERROR_PARTICIPANT_NOT_FOUND == 105
ERROR_ALREADY_WITHDRAWN == 106
ERROR_ESCROW_NOT_FOUND == 107
ERROR_NOT_CREATOR == 108
ERROR_CANNOT_CANCEL == 109
ERROR_TRANSFER_FAILED == 110
ERROR_STAKING_FAILED == 111
ERROR_BALANCE_QUERY_FAILED == 112
ERROR_UNSTAKING_FAILED == 113

\* get_current_scspr_balance's answer when no token contract is configured.
FALLBACK_SCSPR_BALANCE == 1050

\* num_friends and joined_count are u8.
U8_MODULUS == 256

\* ------------------------------------------------------------------------
\* Inputs
\* ------------------------------------------------------------------------

Accounts == {"A", "B", "C", "D"}

\* The accounts that call create_escrow.
Creators == {"A"}

\* The first four bytes of an account hash, as generate_escrow_code prints them.
HashPrefix(account) ==
    CASE account = "A" -> "0A0A0A0A"
      [] account = "B" -> "0B0B0B0B"
      [] account = "C" -> "0C0C0C0C"
      [] OTHER -> "0D0D0D0D"

\* total_amount arguments of create_escrow: an amount to split, and nothing.
Totals == {1000, 0}

\* Contract hashes an administrator may configure.
Hashes == {"H1"}
None == "none"

\* What the liquid staking contract pays, in tenths: receipts per CSPR staked
\* and CSPR per receipt unstaked.
Rates == {8, 12}

\* Receipts the ledger credits to the custody purse between two calls.
Yields == {50}

\* ------------------------------------------------------------------------
\* Data structures and their stored form
\* ------------------------------------------------------------------------

\* EscrowStatus as u8
status_as_u8(status) ==
    CASE status = "Open" -> 0
      [] status = "Complete" -> 1
      [] OTHER -> 2

status_from_u8(status_byte) ==
    CASE status_byte = 0 -> "Open"
      [] status_byte = 1 -> "Complete"
      [] status_byte = 2 -> "Cancelled"
      [] OTHER -> "Open"

\* The stored bytes of an Escrow, field by field in the order written.
serialize_escrow(escrow) ==
    << escrow.creator, escrow.total_amount, escrow.split_amount,
       escrow.num_friends, escrow.joined_count, status_as_u8(escrow.status),
       escrow.accumulated_scspr, escrow.initial_scspr,
       escrow.created_timestamp >>

deserialize_escrow(bytes) ==
    [ creator |-> bytes[1],
      total_amount |-> bytes[2],
      split_amount |-> bytes[3],
      num_friends |-> bytes[4],
      joined_count |-> bytes[5],
      status |-> status_from_u8(bytes[6]),
      accumulated_scspr |-> bytes[7],
      initial_scspr |-> bytes[8],
      created_timestamp |-> IF Len(bytes) >= 9 THEN bytes[9] ELSE 0 ]

serialize_contribution(contribution) ==
    << contribution.account, contribution.cspr_contributed,
       contribution.scspr_received,
       IF contribution.withdrawn THEN 1 ELSE 0 >>

deserialize_contribution(bytes) ==
    [ account |-> bytes[1],
      cspr_contributed |-> bytes[2],
      scspr_received |-> bytes[3],
      withdrawn |-> (bytes[4] = 1) ]

\* storage::dictionary_put and runtime::put_key: the entry is created or
\* overwritten.
Put(dict, key, value) ==
    [k \in DOMAIN dict \cup {key} |-> IF k = key THEN value ELSE dict[k]]

\* storage::dictionary_get(..).unwrap_or_else(|| Vec::new())
GetOrEmpty(dict, key) ==
    IF key \in DOMAIN dict THEN dict[key] ELSE <<>>

\* Variant: the code is made of the creator's bytes only.
generate_escrow_code_without_counter(counter, creator) ==
    <<1, HashPrefix(creator)>>

\* "ESCROW-{counter}-{first four bytes of the creator}"
generate_escrow_code(counter, creator) ==
    <<counter, HashPrefix(creator)>>

\* "{escrow_code}:{account}", the key of the participant and contribution
\* dictionaries.
ParticipantKey(escrow_code, account) ==
    <<escrow_code, account>>

\* ------------------------------------------------------------------------
\* State
\* ------------------------------------------------------------------------

VARIABLES
    escrows,            \* ESCROW_DICT: code -> stored Escrow
    contributions,      \* CONTRIBUTION_DICT: code:account -> stored contribution
    participants,       \* PARTICIPANT_DICT: code:account -> true
    participants_list,  \* PARTICIPANTS_LIST_DICT: code -> accounts, in join order
    user_escrows,       \* USER_ESCROWS_DICT: account -> entries "code:flag"
    escrow_counter,     \* ESCROW_COUNTER (0: the key is absent)
    liquid_staking,     \* LIQUID_STAKING_CONTRACT named key, or None
    scspr_token,        \* SCSPR_TOKEN_CONTRACT named key, or None
    events,             \* named keys "event_{name}_{blocktime}" -> event data
    purse,              \* CSPR held by the contract purse
    scspr,              \* receipts the token ledger holds for the contract purse
    blocktime,          \* runtime::get_blocktime()
    accrued,            \* receipts the ledger has credited as yield so far
    scene,              \* the inputs this behaviour draws from
    last,               \* the last invocation that returned normally
    withdrawals,        \* history: code:account -> the payouts made to it
    iso,                \* the world in which only the first escrow is operated on
    iso_last            \* the last invocation that returned normally there

vars ==
    << escrows, contributions, participants, participants_list, user_escrows,
       escrow_counter, liquid_staking, scspr_token, events, purse, scspr,
       blocktime, accrued, scene, last, withdrawals, iso, iso_last >>

\* The state as one value: what an entry point reads and writes.
World ==
    [ escrows |-> escrows,
      contributions |-> contributions,
      participants |-> participants,
      participants_list |-> participants_list,
      user_escrows |-> user_escrows,
      escrow_counter |-> escrow_counter,
      liquid_staking |-> liquid_staking,
      scspr_token |-> scspr_token,
      events |-> events,
      purse |-> purse,
      scspr |-> scspr,
      blocktime |-> blocktime,
      emitted |-> <<>> ]         \* the events of this invocation, in order

\* The contract as installed by call(): an empty purse, no dictionary entry,
\* no counter, no configured collaborator.
InitWorld ==
    [ escrows |-> <<>>,
      contributions |-> <<>>,
      participants |-> <<>>,
      participants_list |-> <<>>,
      user_escrows |-> <<>>,
      escrow_counter |-> 0,
      liquid_staking |-> None,
      scspr_token |-> None,
      events |-> <<>>,
      purse |-> 0,
      scspr |-> 0,
      blocktime |-> 0,
      emitted |-> <<>> ]

\* ------------------------------------------------------------------------
\* Outcomes
\* ------------------------------------------------------------------------

\* One call to a collaborator: the function, the account and amount passed,
\* whether it succeeded and what it returned.
Call(f, to, amount, ok, ret) ==
    [f |-> f, to |-> to, amount |-> amount, ok |-> ok, ret |-> ret]

\* The invocation returned normally: its writes and transfers stand.
Done(w, calls, ret) ==
    [w |-> w, err |-> 0, calls |-> calls, ret |-> ret]

\* runtime::revert(ApiError::User(err)): the invocation's effects are
\* discarded, w is the world it started from.
Revert(w, err, calls) ==
    [w |-> w, err |-> err, calls |-> calls, ret |-> <<>>]

\* ------------------------------------------------------------------------
\* Event emission
\* ------------------------------------------------------------------------

\* runtime::put_key("event_{name}_{blocktime}", new_uref(event_data))
emit_event(w, event_name, event_data) ==
    [w EXCEPT !.events = Put(@, <<event_name, w.blocktime>>, event_data),
              !.emitted = Append(@, event_data)]

emit_escrow_created(w, escrow_code, creator, total_amount, num_friends) ==
    emit_event(w, "escrow_created",
               <<"EscrowCreated", escrow_code, creator, total_amount, num_friends>>)

emit_participant_joined(w, escrow_code, participant, amount, joined_count) ==
    emit_event(w, "participant_joined",
               <<"ParticipantJoined", escrow_code, participant, amount, joined_count>>)

\* Variant: the completion is not announced.
emit_escrow_completed_unannounced(w, escrow_code, total_scspr) ==
    w

emit_escrow_completed(w, escrow_code, total_scspr) ==
    emit_event(w, "escrow_completed",
               <<"EscrowCompleted", escrow_code, total_scspr>>)

emit_withdrawal_made(w, escrow_code, participant, amount) ==
    emit_event(w, "withdrawal_made",
               <<"WithdrawalMade", escrow_code, participant, amount>>)

emit_escrow_cancelled(w, escrow_code, refund_count) ==
    emit_event(w, "escrow_cancelled",
               <<"EscrowCancelled", escrow_code, refund_count>>)

\* ------------------------------------------------------------------------
\* Storage helpers
\* ------------------------------------------------------------------------

add_user_escrow(w, user, escrow_code, is_creator) ==
    LET escrow_list == GetOrEmpty(w.user_escrows, user)
        entry == <<escrow_code, IF is_creator THEN "1" ELSE "0">>
    IN [w EXCEPT !.user_escrows = Put(@, user, Append(escrow_list, entry))]

\* Variant: the participant is not pushed on the list.
add_participant_to_list_unrecorded(w, escrow_code, participant) ==
    w

add_participant_to_list(w, escrow_code, participant) ==
    LET list == GetOrEmpty(w.participants_list, escrow_code)
    IN [w EXCEPT !.participants_list =
            Put(@, escrow_code, Append(list, participant))]

get_participants_list(w, escrow_code) ==
    GetOrEmpty(w.participants_list, escrow_code)

\* ------------------------------------------------------------------------
\* Collaborators: value custody, liquid staking, receipt token
\* ------------------------------------------------------------------------
\* Each returns [ok, w, ret, calls]: whether the call succeeded, the world
\* after it, its answer and the calls issued.  `env' holds what the
\* collaborator does in this invocation.

\* system::transfer_from_purse_to_purse(main purse, contract purse, amount)
transfer_to_contract_purse(w, from, amount, env) ==
    IF env.custody_ok
    THEN [ok |-> TRUE, w |-> [w EXCEPT !.purse = @ + amount], ret |-> 0,
          calls |-> <<Call("transfer_from_purse_to_purse", from, amount, TRUE, 0)>>]
    ELSE [ok |-> FALSE, w |-> w, ret |-> 0,
          calls |-> <<Call("transfer_from_purse_to_purse", from, amount, FALSE, 0)>>]

\* system::transfer_from_purse_to_account(contract purse, account, amount):
\* fails when custody refuses or the purse holds less than amount.
transfer_to_account(w, account, amount, custody_ok) ==
    IF custody_ok /\ amount <= w.purse
    THEN [ok |-> TRUE, w |-> [w EXCEPT !.purse = @ - amount], ret |-> 0,
          calls |-> <<Call("transfer_from_purse_to_account", account, amount, TRUE, 0)>>]
    ELSE [ok |-> FALSE, w |-> w, ret |-> 0,
          calls |-> <<Call("transfer_from_purse_to_account", account, amount, FALSE, 0)>>]

\* The receipts (or CSPR) the staking contract quotes for an amount.
Quote(amount, rate) == (amount * rate) \div 10

\* Stake CSPR to receive sCSPR: the configured contract's answer, which
\* credits the receipts to the custody purse; 1:1 without a contract.
stake_cspr_to_scspr(w, cspr_amount, env) ==
    IF w.liquid_staking = None
    THEN [ok |-> TRUE, w |-> w, ret |-> cspr_amount, calls |-> <<>>]
    ELSE IF env.staking_ok
    THEN LET scspr_amount == Quote(cspr_amount, env.rate)
         IN [ok |-> TRUE, w |-> [w EXCEPT !.scspr = @ + scspr_amount],
             ret |-> scspr_amount,
             calls |-> <<Call("stake", "", cspr_amount, TRUE, scspr_amount)>>]
    ELSE [ok |-> FALSE, w |-> w, ret |-> 0,
          calls |-> <<Call("stake", "", cspr_amount, FALSE, 0)>>]

\* Unstake sCSPR back to CSPR: the configured contract burns the receipts it
\* holds for the custody purse and answers the CSPR; 1:1 without a contract.
unstake_scspr_to_cspr(w, scspr_amount, staking_ok, rate) ==
    IF w.liquid_staking = None
    THEN [ok |-> TRUE, w |-> w, ret |-> scspr_amount, calls |-> <<>>]
    ELSE IF staking_ok /\ scspr_amount <= w.scspr
    THEN LET cspr_amount == Quote(scspr_amount, rate)
         IN [ok |-> TRUE, w |-> [w EXCEPT !.scspr = @ - scspr_amount],
             ret |-> cspr_amount,
             calls |-> <<Call("unstake", "", scspr_amount, TRUE, cspr_amount)>>]
    ELSE [ok |-> FALSE, w |-> w, ret |-> 0,
          calls |-> <<Call("unstake", "", scspr_amount, FALSE, 0)>>]

\* Current sCSPR balance of the contract: the token contract's balance_of
\* for the contract purse; 1050 without a contract.
get_current_scspr_balance(w, env) ==
    IF w.scspr_token = None
    THEN [ok |-> TRUE, w |-> w, ret |-> FALLBACK_SCSPR_BALANCE, calls |-> <<>>]
    ELSE IF env.balance_ok
    THEN [ok |-> TRUE, w |-> w, ret |-> w.scspr,
          calls |-> <<Call("balance_of", "", 0, TRUE, w.scspr)>>]
    ELSE [ok |-> FALSE, w |-> w, ret |-> 0,
          calls |-> <<Call("balance_of", "", 0, FALSE, 0)>>]

\* Variant: the result of the token contract's transfer is ignored.
transfer_scspr_to_participant_result_ignored(w, recipient, amount, env) ==
    IF w.scspr_token = None
    THEN [ok |-> TRUE, w |-> w, ret |-> 0, calls |-> <<>>]
    ELSE [ok |-> TRUE,
          w |-> [w EXCEPT !.scspr = IF env.token_ok /\ amount <= @ THEN @ - amount ELSE @],
          ret |-> 0,
          calls |-> <<Call("transfer", recipient, amount, env.token_ok /\ amount <= w.scspr, 0)>>]

\* Transfer sCSPR to a participant: the token contract's transfer, which
\* fails when it refuses or the custody purse holds fewer receipts; nothing
\* without a contract.
transfer_scspr_to_participant(w, recipient, amount, env) ==
    IF w.scspr_token = None
    THEN [ok |-> TRUE, w |-> w, ret |-> 0, calls |-> <<>>]
    ELSE IF env.token_ok /\ amount <= w.scspr
    THEN [ok |-> TRUE, w |-> [w EXCEPT !.scspr = @ - amount], ret |-> 0,
          calls |-> <<Call("transfer", recipient, amount, TRUE, 0)>>]
    ELSE [ok |-> FALSE, w |-> w, ret |-> 0,
          calls |-> <<Call("transfer", recipient, amount, FALSE, 0)>>]

\* ------------------------------------------------------------------------
\* Entry point: create_escrow
\* ------------------------------------------------------------------------

\* Variant: the share is rounded up.
split_amount_of_rounded_up(total_amount, num_friends) ==
    (total_amount + num_friends - 1) \div num_friends

\* total_amount / U256::from(num_friends)
split_amount_of(total_amount, num_friends) ==
    total_amount \div num_friends

\* Variant: a single participant is enough.
too_few_participants_below_one(num_friends) ==
    num_friends < 1

\* if num_friends < 2 { revert(ERROR_MIN_PARTICIPANTS) }
too_few_participants(num_friends) ==
    num_friends < 2

create_escrow(w, creator, total_amount, num_friends) ==
    IF too_few_participants(num_friends)
    THEN Revert(w, ERROR_MIN_PARTICIPANTS, <<>>)
    ELSE
    LET split_amount == split_amount_of(total_amount, num_friends)
        counter == w.escrow_counter
        new_counter == counter + 1
        escrow_code == generate_escrow_code(new_counter, creator)
        escrow == [ creator |-> creator,
                    total_amount |-> total_amount,
                    split_amount |-> split_amount,
                    num_friends |-> num_friends,
                    joined_count |-> 0,
                    status |-> "Open",
                    accumulated_scspr |-> 0,
                    initial_scspr |-> 0,
                    created_timestamp |-> w.blocktime ]
        w1 == [w EXCEPT !.escrows = Put(@, escrow_code, serialize_escrow(escrow)),
                        !.escrow_counter = new_counter]
        w2 == add_user_escrow(w1, creator, escrow_code, TRUE)
        w3 == emit_escrow_created(w2, escrow_code, creator, total_amount, num_friends)
    IN Done(w3, <<>>, <<escrow_code>>)

\* ------------------------------------------------------------------------
\* Entry point: join_escrow
\* ------------------------------------------------------------------------

\* Variant: only a Cancelled escrow is closed to joins.
accepts_joins_unless_cancelled(escrow) ==
    escrow.status # "Cancelled"

\* if escrow.status != EscrowStatus::Open { revert(ERROR_ESCROW_COMPLETE) }
accepts_joins(escrow) ==
    escrow.status = "Open"

\* Variant: the participant dictionary is not consulted.
already_joined_unchecked(w, participant_key) ==
    FALSE

\* storage::dictionary_get(participant_dict, &participant_key).is_some()
already_joined(w, participant_key) ==
    participant_key \in DOMAIN w.participants

\* Variant: any amount of at least the share is accepted.
amount_matches_at_least(amount, escrow) ==
    amount >= escrow.split_amount

\* U512::from_dec_str(&escrow.split_amount.to_string()) compared with amount
amount_matches(amount, escrow) ==
    amount = escrow.split_amount

\* Variant: the completion test taken one join early.
escrow_is_full_one_early(escrow) ==
    escrow.joined_count + 1 >= escrow.num_friends

\* if escrow.joined_count >= escrow.num_friends
escrow_is_full(escrow) ==
    escrow.joined_count >= escrow.num_friends

\* Variant: the receipts are accumulated but the join is not counted.
record_join_uncounted(escrow, scspr_received) ==
    [escrow EXCEPT !.accumulated_scspr = @ + scspr_received]

\* escrow.joined_count += 1; escrow.accumulated_scspr += scspr_received
record_join(escrow, scspr_received) ==
    [escrow EXCEPT !.joined_count = (@ + 1) % U8_MODULUS,
                   !.accumulated_scspr = @ + scspr_received]

\* Variant: the status is set but the baseline is not taken.
complete_escrow_without_snapshot(escrow) ==
    [escrow EXCEPT !.status = "Complete"]

\* escrow.status = Complete; escrow.initial_scspr = escrow.accumulated_scspr
complete_escrow(escrow) ==
    [escrow EXCEPT !.status = "Complete",
                   !.initial_scspr = escrow.accumulated_scspr]

join_escrow(w, caller, escrow_code, amount, env) ==
    IF escrow_code \notin DOMAIN w.escrows
    THEN Revert(w, ERROR_ESCROW_NOT_FOUND, <<>>)
    ELSE
    LET escrow0 == deserialize_escrow(w.escrows[escrow_code])
        participant_key == ParticipantKey(escrow_code, caller)
    IN
    IF ~accepts_joins(escrow0)
    THEN Revert(w, ERROR_ESCROW_COMPLETE, <<>>)
    ELSE IF already_joined(w, participant_key)
    THEN Revert(w, ERROR_ALREADY_JOINED, <<>>)
    ELSE IF ~amount_matches(amount, escrow0)
    THEN Revert(w, ERROR_INCORRECT_AMOUNT, <<>>)
    ELSE
    LET paid == transfer_to_contract_purse(w, caller, amount, env)
    IN
    IF ~paid.ok
    THEN Revert(w, ERROR_TRANSFER_FAILED, paid.calls)
    ELSE
    LET staked == stake_cspr_to_scspr(paid.w, amount, env)
        calls == paid.calls \o staked.calls
    IN
    IF ~staked.ok
    THEN Revert(w, ERROR_STAKING_FAILED, calls)
    ELSE
    LET scspr_received == staked.ret
        escrow1 == record_join(escrow0, scspr_received)
        contribution == [ account |-> caller,
                          cspr_contributed |-> amount,
                          scspr_received |-> scspr_received,
                          withdrawn |-> FALSE ]
        w1 == [staked.w EXCEPT
                 !.contributions =
                     Put(@, participant_key, serialize_contribution(contribution)),
                 !.participants = Put(@, participant_key, TRUE)]
        w2 == add_user_escrow(w1, caller, escrow_code, FALSE)
        w3 == add_participant_to_list(w2, escrow_code, caller)
        w4 == emit_participant_joined(w3, escrow_code, caller, amount,
                                      escrow1.joined_count)
        full == escrow_is_full(escrow1)
        escrow2 == IF full THEN complete_escrow(escrow1) ELSE escrow1
        w5 == IF full
              THEN emit_escrow_completed(w4, escrow_code, escrow2.accumulated_scspr)
              ELSE w4
        w6 == [w5 EXCEPT !.escrows =
                  Put(@, escrow_code, serialize_escrow(escrow2))]
    IN Done(w6, calls, <<scspr_received>>)

\* ------------------------------------------------------------------------
\* Entry point: withdraw
\* ------------------------------------------------------------------------

\* Variant: the difference is taken without the comparison.
total_yield_of_unclamped(current_scspr_balance, initial_scspr) ==
    current_scspr_balance - initial_scspr

\* if current_scspr_balance > initial_scspr { current - initial } else { 0 }
total_yield_of(current_scspr_balance, initial_scspr) ==
    IF current_scspr_balance > initial_scspr
    THEN current_scspr_balance - initial_scspr
    ELSE 0

\* (total_yield * scspr_received) / initial_scspr, 0 when initial_scspr is 0
participant_yield_of(total_yield, scspr_received, initial_scspr) ==
    IF initial_scspr > 0
    THEN (total_yield * scspr_received) \div initial_scspr
    ELSE 0

\* Variant: the withdrawn flag is not tested.
has_withdrawn_unchecked(contribution) ==
    FALSE

\* if contribution.withdrawn { revert(ERROR_ALREADY_WITHDRAWN) }
has_withdrawn(contribution) ==
    contribution.withdrawn

\* Variant: the withdrawn flag is not stored.
mark_withdrawn_unset(contribution) ==
    contribution

\* contribution.withdrawn = true
mark_withdrawn(contribution) ==
    [contribution EXCEPT !.withdrawn = TRUE]

\* Variant: the dictionary is replaced by the one record written.
store_contribution_alone(w, contribution_key, contribution) ==
    [w EXCEPT !.contributions =
        Put(<<>>, contribution_key, serialize_contribution(contribution))]

\* storage::dictionary_put(contribution_dict, &contribution_key,
\*                         serialize_contribution(&contribution))
store_contribution(w, contribution_key, contribution) ==
    [w EXCEPT !.contributions =
        Put(@, contribution_key, serialize_contribution(contribution))]

\* Variant: only an Open escrow refuses withdrawals.
can_withdraw_unless_open(escrow) ==
    escrow.status # "Open"

\* if escrow.status != EscrowStatus::Complete { revert(ERROR_ESCROW_NOT_COMPLETE) }
can_withdraw(escrow) ==
    escrow.status = "Complete"

withdraw(w, caller, escrow_code, env) ==
    IF escrow_code \notin DOMAIN w.escrows
    THEN Revert(w, ERROR_ESCROW_NOT_FOUND, <<>>)
    ELSE
    LET escrow == deserialize_escrow(w.escrows[escrow_code])
        contribution_key == ParticipantKey(escrow_code, caller)
    IN
    IF ~can_withdraw(escrow)
    THEN Revert(w, ERROR_ESCROW_NOT_COMPLETE, <<>>)
    ELSE IF contribution_key \notin DOMAIN w.contributions
    THEN Revert(w, ERROR_PARTICIPANT_NOT_FOUND, <<>>)
    ELSE
    LET contribution == deserialize_contribution(w.contributions[contribution_key])
    IN
    IF has_withdrawn(contribution)
    THEN Revert(w, ERROR_ALREADY_WITHDRAWN, <<>>)
    ELSE
    LET balance == get_current_scspr_balance(w, env)
    IN
    IF ~balance.ok
    THEN Revert(w, ERROR_BALANCE_QUERY_FAILED, balance.calls)
    ELSE
    LET current_scspr_balance == balance.ret
        total_yield == total_yield_of(current_scspr_balance, escrow.initial_scspr)
        participant_yield ==
            participant_yield_of(total_yield, contribution.scspr_received,
                                 escrow.initial_scspr)
        total_withdrawal == contribution.scspr_received + participant_yield
        sent == transfer_scspr_to_participant(balance.w, caller, total_withdrawal, env)
        calls == balance.calls \o sent.calls
    IN
    IF ~sent.ok
    THEN Revert(w, ERROR_TRANSFER_FAILED, calls)
    ELSE
    LET w1 == store_contribution(sent.w, contribution_key,
                                 mark_withdrawn(contribution))
        w2 == emit_withdrawal_made(w1, escrow_code, caller, total_withdrawal)
    IN Done(w2, calls,
            <<current_scspr_balance, total_yield, participant_yield,
              total_withdrawal>>)

\* ------------------------------------------------------------------------
\* Entry point: cancel_escrow
\* ------------------------------------------------------------------------

\* The refund loop from participant i of the list on: [err, w, calls,
\* refund_count] after the last participant or at the first failure.
RECURSIVE refund_from(_, _, _, _, _, _, _)
refund_from(w, escrow_code, list, i, env, calls, refund_count) ==
    IF i > Len(list)
    THEN [err |-> 0, w |-> w, calls |-> calls, refund_count |-> refund_count]
    ELSE
    LET participant == list[i]
        contribution_key == ParticipantKey(escrow_code, participant)
    IN
    IF contribution_key \notin DOMAIN w.contributions
    THEN refund_from(w, escrow_code, list, i + 1, env, calls, refund_count)
    ELSE
    LET contribution == deserialize_contribution(w.contributions[contribution_key])
        unstaked == unstake_scspr_to_cspr(
                        w, contribution.scspr_received,
                        ~(env.fail_at = i /\ env.fail_in = "unstake"), env.rate)
    IN
    IF ~unstaked.ok
    THEN [err |-> ERROR_UNSTAKING_FAILED, w |-> w,
          calls |-> calls \o unstaked.calls, refund_count |-> refund_count]
    ELSE
    LET cspr_amount == unstaked.ret
        sent == transfer_to_account(
                    unstaked.w, participant, cspr_amount,
                    ~(env.fail_at = i /\ env.fail_in = "transfer"))
        calls1 == calls \o unstaked.calls \o sent.calls
    IN
    IF ~sent.ok
    THEN [err |-> ERROR_TRANSFER_FAILED, w |-> w, calls |-> calls1,
          refund_count |-> refund_count]
    ELSE refund_from(sent.w, escrow_code, list, i + 1, env, calls1,
                     (refund_count + 1) % U8_MODULUS)

\* Variant: the failure is returned but the refunds already made stay.
abort_cancel_keeping_refunds(w, refunds) ==
    [err |-> refunds.err, w |-> refunds.w, calls |-> refunds.calls, ret |-> <<>>]

\* .unwrap_or_else(|_| runtime::revert(..)) inside the loop: the failure of
\* one unstake or refund reverts the invocation, the refunds made before it
\* included.
abort_cancel(w, refunds) ==
    Revert(w, refunds.err, refunds.calls)

\* Variant: the receipts handed back are taken off the running total.
cancel_status_receipts_returned(escrow) ==
    [escrow EXCEPT !.status = "Cancelled", !.accumulated_scspr = 0]

\* escrow.status = EscrowStatus::Cancelled
cancel_status(escrow) ==
    [escrow EXCEPT !.status = "Cancelled"]

\* Variant: only a Cancelled escrow cannot be cancelled.
can_cancel_unless_cancelled(escrow) ==
    escrow.status # "Cancelled"

\* if escrow.status != EscrowStatus::Open { revert(ERROR_CANNOT_CANCEL) }
can_cancel(escrow) ==
    escrow.status = "Open"

\* Variant: the caller is not compared with the creator.
is_creator_unchecked(escrow, caller) ==
    TRUE

\* if escrow.creator != caller { revert(ERROR_NOT_CREATOR) }
is_creator(escrow, caller) ==
    escrow.creator = caller

cancel_escrow(w, caller, escrow_code, env) ==
    IF escrow_code \notin DOMAIN w.escrows
    THEN Revert(w, ERROR_ESCROW_NOT_FOUND, <<>>)
    ELSE
    LET escrow == deserialize_escrow(w.escrows[escrow_code])
    IN
    IF ~is_creator(escrow, caller)
    THEN Revert(w, ERROR_NOT_CREATOR, <<>>)
    ELSE IF ~can_cancel(escrow)
    THEN Revert(w, ERROR_CANNOT_CANCEL, <<>>)
    ELSE
    LET list == get_participants_list(w, escrow_code)
        refunds == refund_from(w, escrow_code, list, 1, env, <<>>, 0)
    IN
    IF refunds.err # 0
    THEN abort_cancel(w, refunds)
    ELSE
    LET w1 == [refunds.w EXCEPT !.escrows =
                  Put(@, escrow_code, serialize_escrow(cancel_status(escrow)))]
        w2 == emit_escrow_cancelled(w1, escrow_code, refunds.refund_count)
    IN Done(w2, refunds.calls, <<refunds.refund_count>>)

\* ------------------------------------------------------------------------
\* Admin functions
\* ------------------------------------------------------------------------

\* runtime::put_key(LIQUID_STAKING_CONTRACT, Key::Hash(contract_hash))
set_liquid_staking_contract(w, caller, contract_hash) ==
    Done([w EXCEPT !.liquid_staking = contract_hash], <<>>, <<>>)

\* runtime::put_key(SCSPR_TOKEN_CONTRACT, Key::Hash(contract_hash))
set_scspr_token_contract(w, caller, contract_hash) ==
    Done([w EXCEPT !.scspr_token = contract_hash], <<>>, <<>>)

\* ------------------------------------------------------------------------
\* Inputs of a behaviour
\* ------------------------------------------------------------------------

\* A behaviour draws its inputs from one of these: which accounts call, how
\* many escrows are created, with which total_amount and num_friends, at
\* which staking rates, with how much yield, and whether the collaborators
\* are configured only before the first escrow exists.
Scenes ==
    { [ name |-> "one escrow", accounts |-> {"A", "B", "C"}, escrows |-> 1,
        totals |-> {1000}, friends |-> {1, 2, 3}, rates |-> Rates,
        accrued |-> MaxAccrued, setup_first |-> TRUE, clock |-> 0 ],
      [ name |-> "two escrows", accounts |-> {"A", "B"}, escrows |-> MaxEscrows,
        totals |-> {1000}, friends |-> {1, 2}, rates |-> {12},
        accrued |-> 0, setup_first |-> TRUE, clock |-> 0 ],
      [ name |-> "late configuration", accounts |-> {"A", "B"}, escrows |-> 1,
        totals |-> {1000}, friends |-> {1, 2}, rates |-> {12},
        accrued |-> 0, setup_first |-> FALSE, clock |-> MaxBlocktime ],
      [ name |-> "four friends", accounts |-> Accounts, escrows |-> 1,
        totals |-> {1000}, friends |-> {4}, rates |-> {10},
        accrued |-> 0, setup_first |-> TRUE, clock |-> 0 ],
      [ name |-> "nothing to split", accounts |-> {"A", "B"}, escrows |-> 1,
        totals |-> {0}, friends |-> {2}, rates |-> {12},
        accrued |-> MaxAccrued, setup_first |-> TRUE, clock |-> 0 ] }

\* An escrow code no create_escrow returns.
NoSuchCode == <<0, "00000000">>

\* The escrow_code arguments tried: every stored code and an unknown one.
CodeInputs == DOMAIN escrows \cup {NoSuchCode}

\* The amount arguments tried for a code: the share and one mote more.
AmountInputs(escrow_code) ==
    IF escrow_code \in DOMAIN escrows
    THEN LET split == deserialize_escrow(escrows[escrow_code]).split_amount
         IN {split, split + 1}
    ELSE {1}

\* What the collaborators do during a join: custody accepts or refuses the
\* transfer, the staking contract stakes at some rate or fails.
JoinEnvs ==
    [custody_ok : BOOLEAN, staking_ok : BOOLEAN, rate : scene.rates]

\* During a withdraw: the balance query and the transfer each succeed or fail.
WithdrawEnvs ==
    [balance_ok : BOOLEAN, token_ok : BOOLEAN]

\* During a cancel: every refund succeeds at some rate (fail_at 0), or the
\* staking contract or custody fails at participant fail_at of the list.
CancelEnvs ==
    [fail_at : 0..4, fail_in : {"unstake", "transfer"}, rate : scene.rates]

\* ------------------------------------------------------------------------
\* Actions
\* ------------------------------------------------------------------------
\* An invocation that reverts changes nothing: it is a stuttering step.  An
\* action is an invocation that returns normally.

\* An invocation as the caller sees it.
Invocation(op, caller, escrow_code, amount, count, r) ==
    [ op |-> op, caller |-> caller, code |-> escrow_code, amount |-> amount,
      count |-> count, err |-> r.err, calls |-> r.calls, ret |-> r.ret,
      emitted |-> r.w.emitted ]

Commit(w) ==
    /\ escrows' = w.escrows
    /\ contributions' = w.contributions
    /\ participants' = w.participants
    /\ participants_list' = w.participants_list
    /\ user_escrows' = w.user_escrows
    /\ escrow_counter' = w.escrow_counter
    /\ liquid_staking' = w.liquid_staking
    /\ scspr_token' = w.scspr_token
    /\ events' = w.events
    /\ purse' = w.purse
    /\ scspr' = w.scspr
    /\ blocktime' = w.blocktime

\* Successful withdrawals made so far on an escrow.
WithdrawnCount(history, escrow_code) ==
    Cardinality({k \in DOMAIN history : k[1] = escrow_code})

\* The history of payouts after a withdraw that returned normally.
RecordPayout(history, caller, escrow_code, r) ==
    LET key == ParticipantKey(escrow_code, caller)
        payout == [ balance |-> r.ret[1],
                    total_yield |-> r.ret[2],
                    participant_yield |-> r.ret[3],
                    amount |-> r.ret[4],
                    nth |-> WithdrawnCount(history, escrow_code) ]
    IN Put(history, key, Append(GetOrEmpty(history, key), payout))

CreateCall(caller, total_amount, num_friends) ==
    LET r == create_escrow(World, caller, total_amount, num_friends)
    IN /\ r.err = 0
       /\ Commit(r.w)
       /\ last' = Invocation("create_escrow", caller, r.ret[1], total_amount,
                             num_friends, r)
       /\ UNCHANGED <<accrued, scene, withdrawals>>

JoinCall(caller, escrow_code, amount, env) ==
    LET r == join_escrow(World, caller, escrow_code, amount, env)
    IN /\ r.err = 0
       /\ Commit(r.w)
       /\ last' = Invocation("join_escrow", caller, escrow_code, amount, 0, r)
       /\ UNCHANGED <<accrued, scene, withdrawals>>

WithdrawCall(caller, escrow_code, env) ==
    LET r == withdraw(World, caller, escrow_code, env)
    IN /\ r.err = 0
       /\ Commit(r.w)
       /\ last' = Invocation("withdraw", caller, escrow_code, 0, 0, r)
       /\ withdrawals' = RecordPayout(withdrawals, caller, escrow_code, r)
       /\ UNCHANGED <<accrued, scene>>

CancelCall(caller, escrow_code, env) ==
    LET r == cancel_escrow(World, caller, escrow_code, env)
    IN /\ r.err = 0
       /\ Commit(r.w)
       /\ last' = Invocation("cancel_escrow", caller, escrow_code, 0, 0, r)
       /\ UNCHANGED <<accrued, scene, withdrawals>>

SetLiquidStakingCall(caller, contract_hash) ==
    LET r == set_liquid_staking_contract(World, caller, contract_hash)
    IN /\ r.err = 0
       /\ Commit(r.w)
       /\ last' = Invocation("set_liquid_staking_contract", caller, NoSuchCode,
                             0, 0, r)
       /\ UNCHANGED <<accrued, scene, withdrawals>>

SetScsprTokenCall(caller, contract_hash) ==
    LET r == set_scspr_token_contract(World, caller, contract_hash)
    IN /\ r.err = 0
       /\ Commit(r.w)
       /\ last' = Invocation("set_scspr_token_contract", caller, NoSuchCode,
                             0, 0, r)
       /\ UNCHANGED <<accrued, scene, withdrawals>>

\* The staking yield: the ledger credits receipts to the custody purse.
accrue_yield(w, amount) ==
    [w EXCEPT !.scspr = @ + amount]

AccrueCall(amount) ==
    /\ liquid_staking # None
    /\ accrued + amount <= scene.accrued
    /\ Commit(accrue_yield(World, amount))
    /\ accrued' = accrued + amount
    /\ last' = Invocation("accrue_yield", "", NoSuchCode, amount, 0,
                          Done(World, <<>>, <<>>))
    /\ UNCHANGED <<scene, withdrawals>>

CreateEscrow ==
    \E caller \in Creators, total_amount \in scene.totals, num_friends \in scene.friends :
        /\ escrow_counter < scene.escrows
        /\ CreateCall(caller, total_amount, num_friends)
        /\ UNCHANGED <<iso, iso_last>>

JoinEscrow ==
    \E caller \in scene.accounts, escrow_code \in CodeInputs, env \in JoinEnvs :
        \E amount \in AmountInputs(escrow_code) :
            /\ JoinCall(caller, escrow_code, amount, env)
            /\ UNCHANGED <<iso, iso_last>>

Withdraw ==
    \E caller \in scene.accounts, escrow_code \in CodeInputs, env \in WithdrawEnvs :
        /\ WithdrawCall(caller, escrow_code, env)
        /\ UNCHANGED <<iso, iso_last>>

CancelEscrow ==
    \E caller \in scene.accounts, escrow_code \in CodeInputs, env \in CancelEnvs :
        /\ CancelCall(caller, escrow_code, env)
        /\ UNCHANGED <<iso, iso_last>>

SetLiquidStaking ==
    \E caller \in scene.accounts, contract_hash \in Hashes :
        /\ scene.setup_first => escrow_counter = 0
        /\ SetLiquidStakingCall(caller, contract_hash)
        /\ UNCHANGED <<iso, iso_last>>

SetScsprToken ==
    \E caller \in scene.accounts, contract_hash \in Hashes :
        /\ scene.setup_first => escrow_counter = 0
        /\ SetScsprTokenCall(caller, contract_hash)
        /\ UNCHANGED <<iso, iso_last>>

AccrueYield ==
    \E amount \in Yields :
        /\ AccrueCall(amount)
        /\ UNCHANGED <<iso, iso_last>>

\* The next block: runtime::get_blocktime() returns a later time to the
\* invocations that follow.  Invocations in the same block read the same time.
NextBlock ==
    /\ blocktime < scene.clock
    /\ blocktime' = blocktime + 1
    /\ UNCHANGED <<escrows, contributions, participants, participants_list,
                   user_escrows, escrow_counter, liquid_staking, scspr_token,
                   events, purse, scspr, accrued, scene, last, withdrawals,
                   iso, iso_last>>

NoInvocation ==
    [ op |-> "call", caller |-> "", code |-> NoSuchCode, amount |-> 0,
      count |-> 0, err |-> 0, calls |-> <<>>, ret |-> <<>>, emitted |-> <<>> ]

InitState ==
    /\ escrows = InitWorld.escrows
    /\ contributions = InitWorld.contributions
    /\ participants = InitWorld.participants
    /\ participants_list = InitWorld.participants_list
    /\ user_escrows = InitWorld.user_escrows
    /\ escrow_counter = InitWorld.escrow_counter
    /\ liquid_staking = InitWorld.liquid_staking
    /\ scspr_token = InitWorld.scspr_token
    /\ events = InitWorld.events
    /\ purse = InitWorld.purse
    /\ scspr = InitWorld.scspr
    /\ blocktime = InitWorld.blocktime
    /\ accrued = 0
    /\ last = NoInvocation
    /\ withdrawals = <<>>
    /\ iso = InitWorld
    /\ iso_last = NoInvocation

Init ==
    /\ InitState
    /\ scene \in Scenes

Next ==
    \/ CreateEscrow
    \/ JoinEscrow
    \/ Withdraw
    \/ CancelEscrow
    \/ SetLiquidStaking
    \/ SetScsprToken
    \/ AccrueYield
    \/ NextBlock

Spec == Init /\ [][Next]_vars

\* ------------------------------------------------------------------------
\* Two runs side by side
\* ------------------------------------------------------------------------
\* The contract runs next to a second run, iso, that receives the same
\* invocations except those that create or address another escrow than the
\* first one created.  What the two runs return for the first escrow, and
\* what they store for it, can then be compared.

Observed == generate_escrow_code(1, "A")

Other == generate_escrow_code(2, "A")

IsoScene ==
    [ name |-> "two runs", accounts |-> {"A", "B"}, escrows |-> MaxEscrows,
      totals |-> {1000}, friends |-> {2}, rates |-> {10},
      accrued |-> 0, setup_first |-> TRUE, clock |-> 0 ]

\* One invocation in both runs: r is its outcome in the contract, q in the
\* second run, which takes part unless the invocation is about the other
\* escrow.  The step is taken when either run changes.
IsoCall(op, caller, escrow_code, amount, count, r, q) ==
    LET shared == escrow_code # Other
    IN /\ r.err = 0 \/ (shared /\ q.err = 0)
       /\ Commit(r.w)
       /\ last' = Invocation(op, caller, escrow_code, amount, count, r)
       /\ iso' = IF shared THEN [q.w EXCEPT !.emitted = <<>>] ELSE iso
       /\ iso_last' = IF shared
                      THEN Invocation(op, caller, escrow_code, amount, count, q)
                      ELSE iso_last
       /\ withdrawals' = IF op = "withdraw" /\ r.err = 0
                         THEN RecordPayout(withdrawals, caller, escrow_code, r)
                         ELSE withdrawals
       /\ UNCHANGED <<accrued, scene>>

IsoCreateEscrow ==
    \E caller \in Creators, total_amount \in scene.totals, num_friends \in scene.friends :
        LET r == create_escrow(World, caller, total_amount, num_friends)
            q == create_escrow(iso, caller, total_amount, num_friends)
        IN /\ escrow_counter < scene.escrows
           /\ r.err = 0
           /\ IsoCall("create_escrow", caller, r.ret[1], total_amount,
                      num_friends, r, q)

IsoJoinEscrow ==
    \E caller \in scene.accounts, escrow_code \in CodeInputs, env \in JoinEnvs :
        \E amount \in AmountInputs(escrow_code) :
            IsoCall("join_escrow", caller, escrow_code, amount, 0,
                    join_escrow(World, caller, escrow_code, amount, env),
                    join_escrow(iso, caller, escrow_code, amount, env))

IsoWithdraw ==
    \E caller \in scene.accounts, escrow_code \in CodeInputs, env \in WithdrawEnvs :
        IsoCall("withdraw", caller, escrow_code, 0, 0,
                withdraw(World, caller, escrow_code, env),
                withdraw(iso, caller, escrow_code, env))

IsoCancelEscrow ==
    \E caller \in scene.accounts, escrow_code \in CodeInputs, env \in CancelEnvs :
        IsoCall("cancel_escrow", caller, escrow_code, 0, 0,
                cancel_escrow(World, caller, escrow_code, env),
                cancel_escrow(iso, caller, escrow_code, env))

IsoSetLiquidStaking ==
    \E caller \in scene.accounts, contract_hash \in Hashes :
        /\ escrow_counter = 0
        /\ IsoCall("set_liquid_staking_contract", caller, NoSuchCode, 0, 0,
                   set_liquid_staking_contract(World, caller, contract_hash),
                   set_liquid_staking_contract(iso, caller, contract_hash))

IsoSetScsprToken ==
    \E caller \in scene.accounts, contract_hash \in Hashes :
        /\ escrow_counter = 0
        /\ IsoCall("set_scspr_token_contract", caller, NoSuchCode, 0, 0,
                   set_scspr_token_contract(World, caller, contract_hash),
                   set_scspr_token_contract(iso, caller, contract_hash))

InitIso ==
    /\ InitState
    /\ scene = IsoScene

NextIso ==
    \/ IsoCreateEscrow
    \/ IsoJoinEscrow
    \/ IsoWithdraw
    \/ IsoCancelEscrow
    \/ IsoSetLiquidStaking
    \/ IsoSetScsprToken

SpecIso == InitIso /\ [][NextIso]_vars

\* ------------------------------------------------------------------------
\* Reading the state
\* ------------------------------------------------------------------------

Codes == DOMAIN escrows

EscrowOf(escrow_code) == deserialize_escrow(escrows[escrow_code])

HasContribution(escrow_code, account) ==
    ParticipantKey(escrow_code, account) \in DOMAIN contributions

ContributionOf(escrow_code, account) ==
    deserialize_contribution(contributions[ParticipantKey(escrow_code, account)])

\* The accounts with a Contribution in an escrow.
Joined(escrow_code) ==
    {a \in Accounts : HasContribution(escrow_code, a)}

ListOf(escrow_code) == GetOrEmpty(participants_list, escrow_code)

RECURSIVE SeqSum(_)
SeqSum(seq) ==
    IF seq = <<>> THEN 0 ELSE Head(seq) + SeqSum(Tail(seq))

\* ------------------------------------------------------------------------
\* C1
\* ------------------------------------------------------------------------

\* One step of one escrow's status: unchanged, or Open -> Complete by the
\* join that makes joined_count equal num_friends, or Open -> Cancelled by a
\* cancel_escrow of its creator.
C1_Step(escrow_code) ==
    /\ escrow_code \in DOMAIN escrows'
    /\ LET before == EscrowOf(escrow_code)
           after == deserialize_escrow(escrows'[escrow_code])
       IN \/ after.status = before.status
          \/ /\ before.status = "Open"
             /\ after.status = "Complete"
             /\ last'.op = "join_escrow"
             /\ last'.code = escrow_code
             /\ after.joined_count = before.joined_count + 1
             /\ after.joined_count = after.num_friends
          \/ /\ before.status = "Open"
             /\ after.status = "Cancelled"
             /\ last'.op = "cancel_escrow"
             /\ last'.code = escrow_code
             /\ last'.caller = before.creator

\* C1: an escrow's status changes only Open -> Complete (by the join that
\* makes joined_count equal participant_count) or Open -> Cancelled (by a
\* cancel from the creator while Open); a Complete or Cancelled status never
\* changes again, and an escrow is never deleted.
C1_StatusTransitions ==
    [][\A escrow_code \in Codes : C1_Step(escrow_code)]_vars

\* Both transitions have happened: one escrow is Complete, another Cancelled.
C1_Witness ==
    \E c, d \in Codes :
        /\ EscrowOf(c).status = "Complete"
        /\ EscrowOf(d).status = "Cancelled"

\* ------------------------------------------------------------------------
\* C2
\* ------------------------------------------------------------------------

\* C2: for every (escrow, participant), withdraw returns normally at most
\* once: after it has, every withdraw by that participant on that escrow
\* reverts with AlreadyWithdrawn, calls no collaborator (no receipt
\* transfer) and changes nothing.
C2_WithdrawAtMostOnce ==
    \A key \in DOMAIN withdrawals :
        /\ Len(withdrawals[key]) = 1
        /\ \A env \in WithdrawEnvs :
              LET r == withdraw(World, key[2], key[1], env)
              IN /\ r.err = ERROR_ALREADY_WITHDRAWN
                 /\ r.calls = <<>>
                 /\ r.w = World

\* A participant has withdrawn, and other invocations have followed.
C2_Witness ==
    \E key \in DOMAIN withdrawals :
        /\ last.op # "withdraw"
        /\ ContributionOf(key[1], key[2]).withdrawn

\* ------------------------------------------------------------------------
\* C3
\* ------------------------------------------------------------------------

\* Complete exactly when every participant has joined.
C3_CompleteIffFull ==
    \A escrow_code \in Codes :
        LET escrow == EscrowOf(escrow_code)
        IN (escrow.status = "Complete") <=> (escrow.joined_count = escrow.num_friends)

\* A step changes joined_count only by a join that returned normally, which
\* adds one Contribution to the escrow and 1 to joined_count.
C3_Step(escrow_code) ==
    LET before == EscrowOf(escrow_code)
        after == deserialize_escrow(escrows'[escrow_code])
        new == {a \in Accounts :
                  /\ ParticipantKey(escrow_code, a) \in DOMAIN contributions'
                  /\ ~HasContribution(escrow_code, a)}
    IN /\ new # {} => /\ after.joined_count = before.joined_count + 1
                      /\ last'.op = "join_escrow"
                      /\ new = {last'.caller}
       /\ new = {} => after.joined_count = before.joined_count

\* C3: every successful join increases the escrow's joined_count by exactly
\* 1, and the status is Complete exactly when joined_count == participant_count.
C3_JoinedCount ==
    /\ []C3_CompleteIffFull
    /\ [][\A escrow_code \in Codes : C3_Step(escrow_code)]_vars

\* The second of three joins: joined, counted, and the escrow still Open.
C3_Witness ==
    \E escrow_code \in Codes :
        /\ last.op = "join_escrow"
        /\ last.code = escrow_code
        /\ EscrowOf(escrow_code).joined_count = 2
        /\ EscrowOf(escrow_code).num_friends = 3
        /\ EscrowOf(escrow_code).status = "Open"

\* ------------------------------------------------------------------------
\* C4
\* ------------------------------------------------------------------------

\* The accounts an escrow lists, each once, are the accounts with a
\* Contribution in it: a participant has at most one Contribution.
C4_OneContribution(escrow_code) ==
    LET list == ListOf(escrow_code)
    IN /\ \A i, j \in 1..Len(list) : list[i] = list[j] => i = j
       /\ {list[i] : i \in 1..Len(list)} = Joined(escrow_code)
       /\ \A a \in Accounts :
             ParticipantKey(escrow_code, a) \in DOMAIN participants
                 <=> HasContribution(escrow_code, a)

\* C4 as stated: every join by an account that already joined the escrow
\* fails with AlreadyJoined, whatever the escrow's status.
C4_AlreadyJoinedAlways ==
    \A escrow_code \in Codes : \A caller \in Joined(escrow_code) :
        \A amount \in AmountInputs(escrow_code), env \in JoinEnvs :
            join_escrow(World, caller, escrow_code, amount, env).err
                = ERROR_ALREADY_JOINED

\* C4: each participant has at most one Contribution per escrow; every join
\* on a Complete or Cancelled escrow fails with EscrowAlreadyFinalized; a join
\* by an account that already joined fails, with AlreadyJoined while the
\* escrow is Open and with EscrowAlreadyFinalized afterwards.
C4_JoinOnce ==
    \A escrow_code \in Codes :
        /\ C4_OneContribution(escrow_code)
        /\ \A caller \in Accounts :
           \A amount \in AmountInputs(escrow_code), env \in JoinEnvs :
              LET r == join_escrow(World, caller, escrow_code, amount, env)
                  status == EscrowOf(escrow_code).status
              IN /\ status # "Open" => r.err = ERROR_ESCROW_COMPLETE
                 /\ (status = "Open" /\ HasContribution(escrow_code, caller))
                       => r.err = ERROR_ALREADY_JOINED
                 /\ r.err # 0 => r.w = World

\* An Open escrow with a participant in it, who can try to join again.
C4_Witness ==
    \E escrow_code \in Codes : \E caller \in Joined(escrow_code) :
        /\ EscrowOf(escrow_code).status = "Open"
        /\ last.op = "join_escrow"
        /\ join_escrow(World, caller, escrow_code,
                       EscrowOf(escrow_code).split_amount,
                       [custody_ok |-> TRUE, staking_ok |-> TRUE, rate |-> 12]).err
              = ERROR_ALREADY_JOINED

\* A participant of a Complete escrow, whose further join is refused as
\* EscrowAlreadyFinalized.
C4_FinalizedWitness ==
    \E escrow_code \in Codes : \E caller \in Joined(escrow_code) :
        /\ EscrowOf(escrow_code).status = "Complete"
        /\ join_escrow(World, caller, escrow_code,
                       EscrowOf(escrow_code).split_amount,
                       [custody_ok |-> TRUE, staking_ok |-> TRUE, rate |-> 12]).err
              = ERROR_ESCROW_COMPLETE

\* ------------------------------------------------------------------------
\* C5
\* ------------------------------------------------------------------------

Unstakes(calls) == SelectSeq(calls, LAMBDA c : c.f = "unstake")

Refunds(calls) == SelectSeq(calls, LAMBDA c : c.f = "transfer_from_purse_to_account")

\* What a cancel that returned normally did: one refund per listed
\* participant, in order, of the principal obtained by unstaking that
\* participant's receipts (the receipts themselves, 1:1, without a staking
\* contract); the count returned is joined_count; the status is Cancelled.
C5_Refunded(w, escrow_code, r) ==
    LET escrow == deserialize_escrow(w.escrows[escrow_code])
        list == GetOrEmpty(w.participants_list, escrow_code)
        receipts(i) ==
            deserialize_contribution(
                w.contributions[ParticipantKey(escrow_code, list[i])]).scspr_received
        unstakes == Unstakes(r.calls)
        refunds == Refunds(r.calls)
    IN /\ Len(list) = escrow.joined_count
       /\ r.ret = <<escrow.joined_count>>
       /\ Len(refunds) = escrow.joined_count
       /\ \A i \in 1..Len(refunds) :
             /\ refunds[i].ok
             /\ refunds[i].to = list[i]
             /\ IF w.liquid_staking = None
                THEN /\ unstakes = <<>>
                     /\ refunds[i].amount = receipts(i)
                ELSE /\ Len(unstakes) = Len(refunds)
                     /\ unstakes[i].ok
                     /\ unstakes[i].amount = receipts(i)
                     /\ refunds[i].amount = unstakes[i].ret
       /\ deserialize_escrow(r.w.escrows[escrow_code]).status = "Cancelled"
       /\ r.w.contributions = w.contributions
       /\ r.w.participants_list = w.participants_list

\* C5: cancel returns normally only for the creator of an Open escrow; it
\* then refunds each joined participant exactly once, with the principal
\* obtained by unstaking that participant's receipts (refund count ==
\* joined_count), and sets the status to Cancelled; on a Cancelled escrow
\* every withdraw and every join fails, so its open slots are never filled.
C5_Cancel ==
    \A escrow_code \in Codes :
        LET escrow == EscrowOf(escrow_code)
        IN /\ \A caller \in Accounts, env \in CancelEnvs :
                 LET r == cancel_escrow(World, caller, escrow_code, env)
                 IN r.err = 0 =>
                       /\ caller = escrow.creator
                       /\ escrow.status = "Open"
                       /\ C5_Refunded(World, escrow_code, r)
           /\ escrow.status = "Cancelled" =>
                 /\ escrow.joined_count < escrow.num_friends
                 /\ \A caller \in Accounts :
                       /\ \A env \in WithdrawEnvs :
                             withdraw(World, caller, escrow_code, env).err # 0
                       /\ \A amount \in AmountInputs(escrow_code), env \in JoinEnvs :
                             join_escrow(World, caller, escrow_code, amount, env).err # 0

\* A cancel has just refunded two participants of a three-participant
\* escrow through the staking contract.
C5_Witness ==
    /\ last.op = "cancel_escrow"
    /\ last.ret = <<2>>
    /\ Len(Unstakes(last.calls)) = 2
    /\ Len(Refunds(last.calls)) = 2
    /\ EscrowOf(last.code).status = "Cancelled"

\* ------------------------------------------------------------------------
\* C6
\* ------------------------------------------------------------------------

\* The records of the withdrawals an escrow has paid, in the order of its
\* participant list.
PaidOf(escrow_code) ==
    LET list == ListOf(escrow_code)
        keys == SelectSeq([i \in 1..Len(list) |-> <<escrow_code, list[i]>>],
                          LAMBDA k : k \in DOMAIN withdrawals)
    IN [i \in 1..Len(keys) |-> withdrawals[keys[i]][1]]

Max(set) == CHOOSE m \in set : \A n \in set : n <= m

\* The shares of a total yield, one per participant, as withdraw computes them.
SharesOf(escrow_code, total_yield) ==
    LET list == ListOf(escrow_code)
        escrow == EscrowOf(escrow_code)
    IN [i \in 1..Len(list) |->
           participant_yield_of(total_yield,
                                ContributionOf(escrow_code, list[i]).scspr_received,
                                escrow.initial_scspr)]

\* What holds of the split: the participant_yield amounts paid add up to no
\* more than the largest total_yield any withdrawal of the escrow computed,
\* and the shares of one total_yield, taken over all participants of an
\* escrow with a positive baseline, add up to total_yield less a floor
\* residual of under one unit each.
C6_YieldNotOverdistributed ==
    \A escrow_code \in Codes :
        LET escrow == EscrowOf(escrow_code)
            paid == PaidOf(escrow_code)
        IN escrow.status = "Complete" =>
              /\ paid # <<>> =>
                    SeqSum([i \in 1..Len(paid) |-> paid[i].participant_yield])
                        <= Max({paid[i].total_yield : i \in 1..Len(paid)})
              /\ \A env \in WithdrawEnvs :
                    LET balance == get_current_scspr_balance(World, env)
                        total_yield == total_yield_of(balance.ret, escrow.initial_scspr)
                        shares == SeqSum(SharesOf(escrow_code, total_yield))
                    IN (balance.ok /\ escrow.initial_scspr > 0) =>
                          /\ shares <= total_yield
                          /\ total_yield - shares < escrow.num_friends

\* The total_yield of an escrow when its withdrawals began: the receipt
\* balance in excess of the baseline that its first withdrawal computed.
YieldAtFirstWithdrawal(escrow_code) ==
    LET paid == PaidOf(escrow_code)
        first == CHOOSE i \in 1..Len(paid) : paid[i].nth = 0
    IN paid[first].total_yield

\* C6: for a Complete escrow with a positive baseline all of whose
\* participants have withdrawn, the participant_yield amounts paid add up to
\* no more than the escrow's total_yield, and fall short of it only by the
\* floor residual, under one unit per participant.
C6_PaidYield ==
    \A escrow_code \in Codes :
        LET escrow == EscrowOf(escrow_code)
            paid == PaidOf(escrow_code)
            sum == SeqSum([i \in 1..Len(paid) |-> paid[i].participant_yield])
        IN (/\ escrow.status = "Complete"
            /\ escrow.initial_scspr > 0
            /\ Len(paid) = escrow.num_friends) =>
               /\ sum <= YieldAtFirstWithdrawal(escrow_code)
               /\ YieldAtFirstWithdrawal(escrow_code) - sum < escrow.num_friends

\* Three participants have withdrawn from an escrow whose yield does not
\* divide evenly among them.
C6_Witness ==
    \E escrow_code \in Codes :
        LET paid == PaidOf(escrow_code)
        IN /\ Len(paid) = 3
           /\ EscrowOf(escrow_code).initial_scspr > 0
           /\ \E i \in 1..3 :
                 (paid[i].total_yield * ContributionOf(escrow_code, ListOf(escrow_code)[i]).scspr_received)
                     % EscrowOf(escrow_code).initial_scspr # 0

\* ------------------------------------------------------------------------
\* C7
\* ------------------------------------------------------------------------

\* What is stored for an escrow in a run.
StoredFor(w, escrow_code) ==
    [ escrow |-> GetOrEmpty(w.escrows, escrow_code),
      list |-> GetOrEmpty(w.participants_list, escrow_code),
      contributions |->
          [a \in Accounts |-> GetOrEmpty(w.contributions,
                                         ParticipantKey(escrow_code, a))] ]

\* C7: the result of every operation on an escrow (its outcome, the amounts
\* it computes and pays) and what is stored for that escrow are the same
\* whether or not another escrow is created, joined, withdrawn from or
\* cancelled: in particular the receipts staked for another escrow do not
\* change what a withdraw on it pays.
C7_Isolation ==
    /\ StoredFor(World, Observed) = StoredFor(iso, Observed)
    /\ last.code # Other =>
          /\ last.err = iso_last.err
          /\ last.ret = iso_last.ret

\* A withdraw on the first escrow in both runs, after another escrow has
\* been created and joined in the contract only.
C7_Witness ==
    /\ last.op = "withdraw"
    /\ last.code = Observed
    /\ iso_last.op = "withdraw"
    /\ Other \in Codes
    /\ Joined(Other) # {}

\* ------------------------------------------------------------------------
\* C8
\* ------------------------------------------------------------------------

\* Scenario D: a Complete escrow with baseline 1000 whose participants "A"
\* and "B" hold receipts 400 and 600.
ScenarioD(escrow_code) ==
    /\ EscrowOf(escrow_code).status = "Complete"
    /\ EscrowOf(escrow_code).initial_scspr = 1000
    /\ Joined(escrow_code) = {"A", "B"}
    /\ ContributionOf(escrow_code, "A").scspr_received = 400
    /\ ContributionOf(escrow_code, "B").scspr_received = 600

WithdrawalsOf(escrow_code, account) ==
    GetOrEmpty(withdrawals, <<escrow_code, account>>)

\* The balance reported to the first withdrawal of the escrow was 1050.
BeganAt1050(escrow_code) ==
    \A account \in {"A", "B"} :
        \A i \in 1..Len(WithdrawalsOf(escrow_code, account)) :
            WithdrawalsOf(escrow_code, account)[i].nth = 0
                => WithdrawalsOf(escrow_code, account)[i].balance = 1050

\* C8: in Scenario D with the balance at 1050 when withdrawals begin, in
\* either order, A is paid exactly 420 and B exactly 630, each exactly once.
C8_ScenarioD ==
    \A escrow_code \in Codes :
        (ScenarioD(escrow_code) /\ BeganAt1050(escrow_code)) =>
            /\ \A i \in 1..Len(WithdrawalsOf(escrow_code, "A")) :
                  WithdrawalsOf(escrow_code, "A")[i].amount = 420
            /\ \A i \in 1..Len(WithdrawalsOf(escrow_code, "B")) :
                  WithdrawalsOf(escrow_code, "B")[i].amount = 630
            /\ Len(WithdrawalsOf(escrow_code, "A")) <= 1
            /\ Len(WithdrawalsOf(escrow_code, "B")) <= 1

\* Scenario D played to its end: both participants have withdrawn, the first
\* of them at balance 1050.
C8_Witness ==
    \E escrow_code \in Codes :
        /\ ScenarioD(escrow_code)
        /\ BeganAt1050(escrow_code)
        /\ Len(WithdrawalsOf(escrow_code, "A")) = 1
        /\ Len(WithdrawalsOf(escrow_code, "B")) = 1

\* ------------------------------------------------------------------------
\* C9
\* ------------------------------------------------------------------------

\* The error a join reverts with, by the first check of join_escrow that
\* its inputs fail; 0 when they pass them all.
C9_ExpectedError(caller, escrow_code, amount, env) ==
    IF escrow_code \notin Codes THEN ERROR_ESCROW_NOT_FOUND
    ELSE IF EscrowOf(escrow_code).status # "Open" THEN ERROR_ESCROW_COMPLETE
    ELSE IF ParticipantKey(escrow_code, caller) \in DOMAIN participants
    THEN ERROR_ALREADY_JOINED
    ELSE IF amount # EscrowOf(escrow_code).split_amount THEN ERROR_INCORRECT_AMOUNT
    ELSE IF ~env.custody_ok THEN ERROR_TRANSFER_FAILED
    ELSE IF liquid_staking # None /\ ~env.staking_ok THEN ERROR_STAKING_FAILED
    ELSE 0

\* C9: a join that fails, for any reason (unknown code, finalized escrow,
\* already joined, wrong amount, custody transfer refused, staking refused),
\* leaves the escrow records, the Contributions, the participant lists and
\* the custody balances as they were, and fails exactly when one of those
\* reasons applies.
C9_FailedJoinChangesNothing ==
    \A caller \in Accounts, escrow_code \in CodeInputs :
        \A amount \in AmountInputs(escrow_code), env \in JoinEnvs :
            LET r == join_escrow(World, caller, escrow_code, amount, env)
            IN /\ r.err = C9_ExpectedError(caller, escrow_code, amount, env)
               /\ r.err # 0 =>
                     /\ r.w.escrows = escrows
                     /\ r.w.contributions = contributions
                     /\ r.w.participants = participants
                     /\ r.w.participants_list = participants_list
                     /\ r.w.purse = purse
                     /\ r.w.scspr = scspr
                     /\ r.w = World

\* An Open escrow holding one Contribution, where a newcomer's join fails
\* for a wrong amount, for a refused custody transfer and for refused staking.
C9_Witness ==
    \E escrow_code \in Codes : \E caller \in Accounts \ Joined(escrow_code) :
        LET share == EscrowOf(escrow_code).split_amount
            failing(amount, custody_ok, staking_ok) ==
                join_escrow(World, caller, escrow_code, amount,
                            [custody_ok |-> custody_ok, staking_ok |-> staking_ok,
                             rate |-> 12]).err
        IN /\ EscrowOf(escrow_code).status = "Open"
           /\ Joined(escrow_code) # {}
           /\ purse > 0
           /\ failing(share + 1, TRUE, TRUE) = ERROR_INCORRECT_AMOUNT
           /\ failing(share, FALSE, TRUE) = ERROR_TRANSFER_FAILED
           /\ failing(share, TRUE, FALSE) = ERROR_STAKING_FAILED

\* ------------------------------------------------------------------------
\* C10
\* ------------------------------------------------------------------------

\* The transfer of receipts a withdraw made, if it made one.
TokenTransfers(calls) == SelectSeq(calls, LAMBDA c : c.f = "transfer")

\* A withdraw whose receipt transfer fails reverts with TransferFailed and
\* changes nothing: withdrawn stays false.
C10_FailedTransfer(escrow_code, caller) ==
    \A env \in WithdrawEnvs :
        LET r == withdraw(World, caller, escrow_code, env)
            transfers == TokenTransfers(r.calls)
        IN /\ (transfers # <<>> /\ ~transfers[1].ok) =>
                 /\ r.err = ERROR_TRANSFER_FAILED
                 /\ r.w = World
                 /\ ~deserialize_contribution(
                        r.w.contributions[ParticipantKey(escrow_code, caller)]).withdrawn
           /\ (scspr_token # None /\ env.balance_ok /\ ~env.token_ok) =>
                 r.err = ERROR_TRANSFER_FAILED
           /\ r.err = 0 =>
                 /\ \A i \in 1..Len(r.calls) : r.calls[i].ok
                 /\ scspr_token # None =>
                       /\ Len(transfers) = 1
                       /\ transfers[1].to = caller
                       /\ transfers[1].amount = r.ret[4]
                 /\ deserialize_contribution(
                        r.w.contributions[ParticipantKey(escrow_code, caller)]).withdrawn

\* A step sets a withdrawn flag only by a withdraw of that participant that
\* returned normally, every call of which succeeded.
C10_Step ==
    \A key \in DOMAIN contributions :
        (/\ ~deserialize_contribution(contributions[key]).withdrawn
         /\ deserialize_contribution(contributions'[key]).withdrawn)
            => /\ last'.op = "withdraw"
               /\ last'.err = 0
               /\ <<last'.code, last'.caller>> = key
               /\ \A i \in 1..Len(last'.calls) : last'.calls[i].ok
               /\ Len(withdrawals'[key]) = 1

\* C10: a withdraw whose receipt transfer fails reverts with TransferFailed
\* and leaves withdrawn false, so that the participant's later withdraw can
\* still succeed; withdrawn becomes true only in an invocation whose transfer
\* succeeded.
C10_TransferFailed ==
    /\ [](\A escrow_code \in Codes : \A caller \in Joined(escrow_code) :
             (/\ EscrowOf(escrow_code).status = "Complete"
              /\ ~ContributionOf(escrow_code, caller).withdrawn)
                 => C10_FailedTransfer(escrow_code, caller))
    /\ [][C10_Step]_vars

\* A participant has withdrawn through the token contract, from a state in
\* which the same withdraw with the transfer refused fails with
\* TransferFailed: the later withdraw succeeded.
C10_Witness ==
    /\ last.op = "withdraw"
    /\ scspr_token # None
    /\ Len(TokenTransfers(last.calls)) = 1
    /\ LET before == [World EXCEPT
                         !.contributions = Put(contributions,
                             ParticipantKey(last.code, last.caller),
                             serialize_contribution(
                                 [ContributionOf(last.code, last.caller)
                                     EXCEPT !.withdrawn = FALSE])),
                         !.scspr = @ + last.ret[4]]
       IN withdraw(before, last.caller, last.code,
                   [balance_ok |-> TRUE, token_ok |-> FALSE]).err
              = ERROR_TRANSFER_FAILED

\* ------------------------------------------------------------------------
\* C11
\* ------------------------------------------------------------------------

\* C11: a cancel in which the unstake or the refund transfer of any one
\* participant fails reverts (UnstakingFailed, TransferFailed): the status
\* stays Open, and the purse, the ledger and everything stored are as before
\* the call, so no participant keeps a refund, those refunded earlier in the
\* list included.
C11_CancelAllOrNothing ==
    \A escrow_code \in Codes, caller \in Accounts, env \in CancelEnvs :
        LET r == cancel_escrow(World, caller, escrow_code, env)
            list == ListOf(escrow_code)
            failed == {i \in 1..Len(r.calls) : ~r.calls[i].ok}
            injected == /\ caller = EscrowOf(escrow_code).creator
                        /\ EscrowOf(escrow_code).status = "Open"
                        /\ env.fail_at \in 1..Len(list)
        IN /\ failed # {} =>
                 /\ r.err \in {ERROR_UNSTAKING_FAILED, ERROR_TRANSFER_FAILED}
                 /\ r.w = World
                 /\ r.w.purse = purse
                 /\ deserialize_escrow(r.w.escrows[escrow_code]).status = "Open"
           /\ (injected /\ env.fail_in = "transfer") => r.err # 0
           /\ (injected /\ env.fail_in = "unstake" /\ liquid_staking # None)
                 => r.err = ERROR_UNSTAKING_FAILED
           /\ r.err = 0 => failed = {}

\* An Open escrow with two participants whose cancel refunds the first and
\* fails at the transfer to the second.
C11_Witness ==
    \E escrow_code \in Codes :
        LET r == cancel_escrow(World, EscrowOf(escrow_code).creator, escrow_code,
                               [fail_at |-> 2, fail_in |-> "transfer", rate |-> 8])
        IN /\ Len(ListOf(escrow_code)) = 2
           /\ liquid_staking # None
           /\ Len(Refunds(r.calls)) = 2
           /\ Refunds(r.calls)[1].ok
           /\ ~Refunds(r.calls)[2].ok
           /\ r.err = ERROR_TRANSFER_FAILED

\* ------------------------------------------------------------------------
\* C12
\* ------------------------------------------------------------------------

\* The arguments create_escrow is tried with: num_friends is a u8.
FriendInputs == 0..4

TotalInputs == Totals \cup {7}

\* C12: every create(total, n) with n >= 2 returns normally; the escrow it
\* stores has split_amount floor(total / n), joined_count 0, status Open and
\* both yield fields 0; the code it returns is the key of no escrow stored
\* before, so it differs from the code of every other create, the same
\* creator's with the same arguments included; the escrows stored before
\* are unchanged.
C12_Create ==
    \A caller \in Accounts, total \in TotalInputs, n \in FriendInputs :
        LET r == create_escrow(World, caller, total, n)
        IN /\ n >= 2 => r.err = 0
           /\ r.err = 0 =>
                 LET escrow_code == r.ret[1]
                     escrow == deserialize_escrow(r.w.escrows[escrow_code])
                 IN /\ n >= 2
                    /\ escrow.split_amount * n <= total
                    /\ total < (escrow.split_amount + 1) * n
                    /\ escrow.creator = caller
                    /\ escrow.total_amount = total
                    /\ escrow.num_friends = n
                    /\ escrow.joined_count = 0
                    /\ escrow.status = "Open"
                    /\ escrow.accumulated_scspr = 0
                    /\ escrow.initial_scspr = 0
                    /\ escrow_code \notin Codes
                    /\ DOMAIN r.w.escrows = Codes \cup {escrow_code}
                    /\ \A c \in Codes : r.w.escrows[c] = escrows[c]
                    /\ r.w.escrow_counter = escrow_counter + 1

\* The same creator has created two escrows with the same arguments, and
\* they are stored under two codes.
C12_Witness ==
    /\ last.op = "create_escrow"
    /\ \E c, d \in Codes :
          /\ c # d
          /\ last.code = d
          /\ EscrowOf(c).creator = EscrowOf(d).creator
          /\ EscrowOf(c).total_amount = EscrowOf(d).total_amount
          /\ EscrowOf(c).num_friends = EscrowOf(d).num_friends
          /\ EscrowOf(d).joined_count = 0

\* ------------------------------------------------------------------------
\* C13
\* ------------------------------------------------------------------------

\* C13: create with num_friends < 2 reverts with InsufficientParticipants:
\* no escrow is stored, the counter does not advance and nothing is added
\* to the caller's list of escrows.
C13_InsufficientParticipants ==
    \A caller \in Accounts, total \in TotalInputs, n \in {0, 1} :
        LET r == create_escrow(World, caller, total, n)
        IN /\ r.err = ERROR_MIN_PARTICIPANTS
           /\ r.ret = <<>>
           /\ r.w.escrows = escrows
           /\ r.w.escrow_counter = escrow_counter
           /\ r.w.user_escrows = user_escrows
           /\ r.w = World

\* After a create that was accepted, the creator's create with a single
\* participant is refused.
C13_Witness ==
    /\ last.op = "create_escrow"
    /\ escrow_counter = 1
    /\ last.caller \in DOMAIN user_escrows
    /\ create_escrow(World, last.caller, 1000, 1).err = ERROR_MIN_PARTICIPANTS

\* ------------------------------------------------------------------------
\* C14
\* ------------------------------------------------------------------------

\* The good join inputs used in witnesses.
Cooperative == [custody_ok |-> TRUE, staking_ok |-> TRUE, rate |-> 12]

\* C14: join reports the first of its preconditions that fails, in the order
\* escrow exists (EscrowNotFound), status Open (EscrowAlreadyFinalized),
\* caller not yet joined (AlreadyJoined), amount == share (IncorrectAmount),
\* whatever the later ones would say, and before any transfer or stake.
C14_JoinCheckOrder ==
    \A caller \in Accounts, escrow_code \in CodeInputs :
        \A amount \in AmountInputs(escrow_code), env \in JoinEnvs :
            LET r == join_escrow(World, caller, escrow_code, amount, env)
                exists == escrow_code \in Codes
                open == EscrowOf(escrow_code).status = "Open"
                joined == HasContribution(escrow_code, caller)
                right == amount = EscrowOf(escrow_code).split_amount
                checks == {ERROR_ESCROW_NOT_FOUND, ERROR_ESCROW_COMPLETE,
                           ERROR_ALREADY_JOINED, ERROR_INCORRECT_AMOUNT}
            IN /\ ~exists => r.err = ERROR_ESCROW_NOT_FOUND
               /\ (exists /\ ~open) => r.err = ERROR_ESCROW_COMPLETE
               /\ (exists /\ open /\ joined) => r.err = ERROR_ALREADY_JOINED
               /\ (exists /\ open /\ ~joined /\ ~right)
                     => r.err = ERROR_INCORRECT_AMOUNT
               /\ (exists /\ open /\ ~joined /\ right) => r.err \notin checks
               /\ r.err \in checks => r.calls = <<>>

\* An Open escrow whose participant joins again with a wrong amount
\* (AlreadyJoined), next to a Complete escrow that a newcomer tries to join
\* with the right amount (EscrowAlreadyFinalized).
C14_Witness ==
    \E c, d \in Codes :
        /\ EscrowOf(c).status = "Open"
        /\ \E a \in Joined(c) :
              join_escrow(World, a, c, EscrowOf(c).split_amount + 1, Cooperative).err
                  = ERROR_ALREADY_JOINED
        /\ EscrowOf(d).status = "Complete"
        /\ \E b \in Accounts \ Joined(d) :
              join_escrow(World, b, d, EscrowOf(d).split_amount, Cooperative).err
                  = ERROR_ESCROW_COMPLETE

\* ------------------------------------------------------------------------
\* C15
\* ------------------------------------------------------------------------

\* C15: withdraw on an escrow that is Open or Cancelled reverts with
\* EscrowNotComplete for every caller, participant or not; on a Complete
\* escrow it reverts with ParticipantNotFound for a caller without a
\* Contribution and with AlreadyWithdrawn for a caller whose Contribution is
\* withdrawn; each of these calls no collaborator and changes nothing.
C15_WithdrawRefused ==
    \A escrow_code \in Codes, caller \in Accounts, env \in WithdrawEnvs :
        LET r == withdraw(World, caller, escrow_code, env)
            complete == EscrowOf(escrow_code).status = "Complete"
            joined == HasContribution(escrow_code, caller)
            refused == {ERROR_ESCROW_NOT_COMPLETE, ERROR_PARTICIPANT_NOT_FOUND,
                        ERROR_ALREADY_WITHDRAWN}
        IN /\ ~complete => r.err = ERROR_ESCROW_NOT_COMPLETE
           /\ (complete /\ ~joined) => r.err = ERROR_PARTICIPANT_NOT_FOUND
           /\ (complete /\ joined /\ ContributionOf(escrow_code, caller).withdrawn)
                 => r.err = ERROR_ALREADY_WITHDRAWN
           /\ (complete /\ joined /\ ~ContributionOf(escrow_code, caller).withdrawn)
                 => r.err \notin refused
           /\ r.err \in refused => (r.calls = <<>> /\ r.w = World)

\* A Cancelled escrow with a participant, next to a Complete escrow with a
\* participant who has withdrawn and an account that never joined.
C15_Witness ==
    \E c, d \in Codes :
        /\ EscrowOf(c).status = "Cancelled"
        /\ Joined(c) # {}
        /\ EscrowOf(d).status = "Complete"
        /\ \E a \in Joined(d) : ContributionOf(d, a).withdrawn
        /\ Accounts \ Joined(d) # {}
        /\ last.op = "withdraw"

\* ------------------------------------------------------------------------
\* C16
\* ------------------------------------------------------------------------

\* C16: cancel by a caller other than the creator reverts with NotCreator
\* whatever the status; cancel by the creator of a Complete or Cancelled
\* escrow reverts with CannotCancel; both make no call (no unstake, no
\* refund) and change nothing, so a Complete escrow is never cancelled and a
\* Cancelled one is never refunded again.
C16_CancelRefused ==
    \A escrow_code \in Codes, caller \in Accounts, env \in CancelEnvs :
        LET r == cancel_escrow(World, caller, escrow_code, env)
            escrow == EscrowOf(escrow_code)
        IN /\ caller # escrow.creator => r.err = ERROR_NOT_CREATOR
           /\ (caller = escrow.creator /\ escrow.status # "Open")
                 => r.err = ERROR_CANNOT_CANCEL
           /\ (caller = escrow.creator /\ escrow.status = "Open")
                 => r.err \notin {ERROR_NOT_CREATOR, ERROR_CANNOT_CANCEL}
           /\ r.err \in {ERROR_NOT_CREATOR, ERROR_CANNOT_CANCEL}
                 => (r.calls = <<>> /\ r.w = World)

\* A Complete escrow and a Cancelled escrow that refunded a participant,
\* each of which its creator and its participants may try to cancel.
C16_Witness ==
    \E c, d \in Codes :
        /\ EscrowOf(c).status = "Complete"
        /\ EscrowOf(d).status = "Cancelled"
        /\ Joined(d) # {}
        /\ Joined(c) \ {EscrowOf(c).creator} # {}
        /\ last.op = "cancel_escrow"

\* ------------------------------------------------------------------------
\* C17
\* ------------------------------------------------------------------------

\* The keys of the Contribution records of an escrow.
ContributionKeys(escrow_code) ==
    {key \in DOMAIN contributions : key[1] = escrow_code}

\* C17: for every escrow, joined_count is the number of its Contribution
\* records and the length of its participant list; the list has no
\* duplicates and holds exactly the accounts with a Contribution; and
\* joined_count <= num_friends.
C17_JoinedCountMatches ==
    \A escrow_code \in Codes :
        LET escrow == EscrowOf(escrow_code)
            list == ListOf(escrow_code)
            keys == ContributionKeys(escrow_code)
        IN /\ escrow.joined_count = Cardinality(keys)
           /\ escrow.joined_count = Len(list)
           /\ \A i, j \in 1..Len(list) : list[i] = list[j] => i = j
           /\ {<<escrow_code, list[i]>> : i \in 1..Len(list)} = keys
           /\ \A key \in keys :
                 deserialize_contribution(contributions[key]).account = key[2]
           /\ escrow.joined_count <= escrow.num_friends

\* Three of four participants have joined, the third just now.
C17_Witness ==
    /\ last.op = "join_escrow"
    /\ EscrowOf(last.code).num_friends = 4
    /\ EscrowOf(last.code).joined_count = 3
    /\ Len(ListOf(last.code)) = 3

\* ------------------------------------------------------------------------
\* C18
\* ------------------------------------------------------------------------

\* The receipt balance of custody that a withdraw is told: the ledger's, or
\* 1050 without a token contract.
ReportedBalance ==
    IF scspr_token = None THEN FALLBACK_SCSPR_BALANCE ELSE scspr

\* y is floor(numerator / denominator).
IsFloor(y, numerator, denominator) ==
    /\ y * denominator <= numerator
    /\ numerator < (y + 1) * denominator

\* C18: a withdraw by participant p that returns normally on a Complete
\* escrow with baseline B, told balance C, pays receipts_received(p) +
\* floor(max(0, C - B) * receipts_received(p) / B) when B > 0 and
\* receipts_received(p) when B = 0, and transfers that amount to p; a
\* balance below the baseline gives zero yield and is no error.
C18_WithdrawalAmount ==
    \A escrow_code \in Codes : \A p \in Joined(escrow_code) :
        \A env \in WithdrawEnvs :
            LET r == withdraw(World, p, escrow_code, env)
                B == EscrowOf(escrow_code).initial_scspr
                C == ReportedBalance
                received == ContributionOf(escrow_code, p).scspr_received
                excess == IF C - B > 0 THEN C - B ELSE 0
                paid == r.ret[4]
                transfers == TokenTransfers(r.calls)
            IN /\ r.err = 0 =>
                     /\ paid >= received
                     /\ B > 0 => IsFloor(paid - received, excess * received, B)
                     /\ B = 0 => paid = received
                     /\ scspr_token # None =>
                           /\ Len(transfers) = 1
                           /\ transfers[1].to = p
                           /\ transfers[1].amount = paid
               /\ (/\ EscrowOf(escrow_code).status = "Complete"
                   /\ ~ContributionOf(escrow_code, p).withdrawn
                   /\ C < B
                   /\ env.balance_ok /\ env.token_ok
                   /\ scspr_token # None => received <= scspr)
                     => (r.err = 0 /\ paid = received)

\* An escrow with a positive baseline has paid one withdrawal with yield
\* and, the balance then being below the baseline, one without.
C18_Witness ==
    \E escrow_code \in Codes :
        LET paid == PaidOf(escrow_code)
            B == EscrowOf(escrow_code).initial_scspr
        IN /\ B > 0
           /\ \E i, j \in 1..Len(paid) :
                 /\ paid[i].balance > B
                 /\ paid[i].participant_yield > 0
                 /\ paid[j].balance < B
                 /\ paid[j].participant_yield = 0

\* An escrow with baseline 0 has paid a withdrawal while the balance was
\* positive.
C18_ZeroBaseline ==
    \E escrow_code \in Codes :
        LET paid == PaidOf(escrow_code)
        IN /\ EscrowOf(escrow_code).initial_scspr = 0
           /\ \E i \in 1..Len(paid) :
                 /\ paid[i].balance > 0
                 /\ paid[i].amount = 0

\* ------------------------------------------------------------------------
\* C19
\* ------------------------------------------------------------------------

\* C19: a withdraw that returns normally changes, of what is stored, only
\* the caller's own Contribution, and of it only withdrawn, from false to
\* true: every escrow record (status, joined_count, accumulated_scspr,
\* initial_scspr), every other Contribution, the participant dictionary and
\* the participant lists are as before.
C19_WithdrawFrame ==
    \A escrow_code \in Codes, caller \in Accounts, env \in WithdrawEnvs :
        LET r == withdraw(World, caller, escrow_code, env)
            own == ParticipantKey(escrow_code, caller)
        IN r.err = 0 =>
              /\ r.w.escrows = escrows
              /\ r.w.participants = participants
              /\ r.w.participants_list = participants_list
              /\ r.w.escrow_counter = escrow_counter
              /\ DOMAIN r.w.contributions = DOMAIN contributions
              /\ \A key \in DOMAIN contributions \ {own} :
                    r.w.contributions[key] = contributions[key]
              /\ ~ContributionOf(escrow_code, caller).withdrawn
              /\ deserialize_contribution(r.w.contributions[own])
                    = [ContributionOf(escrow_code, caller) EXCEPT !.withdrawn = TRUE]

\* A participant has just withdrawn from an escrow another participant of
\* which has not.
C19_Witness ==
    /\ last.op = "withdraw"
    /\ ContributionOf(last.code, last.caller).withdrawn
    /\ \E other \in Joined(last.code) \ {last.caller} :
          ~ContributionOf(last.code, other).withdrawn

\* ------------------------------------------------------------------------
\* C20
\* ------------------------------------------------------------------------

\* The receipts recorded for the participants of an escrow, in list order.
ReceiptsOf(escrow_code) ==
    LET list == ListOf(escrow_code)
    IN [i \in 1..Len(list) |->
           ContributionOf(escrow_code, list[i]).scspr_received]

\* The baseline in a state: 0 unless Complete; of a Complete escrow, the
\* accumulated receipts, which are the sum of the receipts of its
\* num_friends participants.
C20_Baseline ==
    \A escrow_code \in Codes :
        LET escrow == EscrowOf(escrow_code)
        IN /\ escrow.status # "Complete" => escrow.initial_scspr = 0
           /\ escrow.status = "Complete" =>
                 /\ escrow.initial_scspr = escrow.accumulated_scspr
                 /\ Len(ReceiptsOf(escrow_code)) = escrow.num_friends
                 /\ escrow.initial_scspr = SeqSum(ReceiptsOf(escrow_code))

\* The baseline in a step: a join adds what its stake returned to the
\* accumulated receipts; the join that completes the escrow sets the
\* baseline to them; a Complete escrow keeps both.
C20_Step(escrow_code) ==
    LET before == EscrowOf(escrow_code)
        after == deserialize_escrow(escrows'[escrow_code])
        joining == after.joined_count # before.joined_count
    IN /\ joining =>
             /\ last'.op = "join_escrow"
             /\ after.accumulated_scspr = before.accumulated_scspr + last'.ret[1]
             /\ deserialize_contribution(
                    contributions'[ParticipantKey(escrow_code, last'.caller)]).scspr_received
                   = last'.ret[1]
       /\ (before.status = "Open" /\ after.status = "Complete") =>
             /\ joining
             /\ after.initial_scspr = after.accumulated_scspr
       /\ ~joining => after.accumulated_scspr = before.accumulated_scspr
       /\ before.status = "Complete" =>
             /\ after.initial_scspr = before.initial_scspr
             /\ after.accumulated_scspr = before.accumulated_scspr

\* C20: yield_baseline (initial_scspr) is 0 while the escrow is Open or
\* Cancelled; the join that completes the escrow sets it to the accumulated
\* receipts, the sum of what the num_friends stakes returned; after
\* completion the baseline and the accumulated receipts never change.
C20_YieldBaseline ==
    /\ []C20_Baseline
    /\ [][\A escrow_code \in Codes : C20_Step(escrow_code)]_vars

\* Scenario A: the fourth join of 250 has completed an escrow of 1000 among
\* four, with baseline 1000 from four stakes of 250.
C20_Witness ==
    /\ last.op = "join_escrow"
    /\ EscrowOf(last.code).status = "Complete"
    /\ EscrowOf(last.code).num_friends = 4
    /\ EscrowOf(last.code).initial_scspr = 1000
    /\ ReceiptsOf(last.code) = <<250, 250, 250, 250>>
    /\ liquid_staking # None

\* ------------------------------------------------------------------------
\* C21

\* What the participants of an escrow have paid in, in the order of its list.
PrincipalOf(escrow_code) ==
    LET list == ListOf(escrow_code)
    IN [i \in 1..Len(list) |->
           ContributionOf(escrow_code, list[i]).cspr_contributed]

\* C21: every Contribution's principal (cspr_contributed) equals the
\* split_amount of its escrow, and the principal of an escrow's Contributions
\* sums to at most num_friends * split_amount, which is at most total_amount.
C21_PrincipalIsShare ==
    \A escrow_code \in Codes :
        LET escrow == EscrowOf(escrow_code)
        IN /\ \A key \in ContributionKeys(escrow_code) :
                 deserialize_contribution(contributions[key]).cspr_contributed
                    = escrow.split_amount
           /\ SeqSum(PrincipalOf(escrow_code))
                 = escrow.joined_count * escrow.split_amount
           /\ SeqSum(PrincipalOf(escrow_code))
                 <= escrow.num_friends * escrow.split_amount
           /\ escrow.num_friends * escrow.split_amount <= escrow.total_amount
           /\ SeqSum(PrincipalOf(escrow_code)) <= escrow.total_amount

\* Three participants have each paid 333 of 1000: the remainder of the
\* division is never paid in.
C21_Witness ==
    /\ last.op = "join_escrow"
    /\ EscrowOf(last.code).total_amount = 1000
    /\ EscrowOf(last.code).split_amount = 333
    /\ PrincipalOf(last.code) = <<333, 333, 333>>

\* ------------------------------------------------------------------------
\* C22

\* In a state: a Cancelled escrow has no Contribution marked withdrawn and no
\* payout on record; a Contribution marked withdrawn belongs to a Complete
\* escrow, has its payout on record, and no cancel of that escrow, by any
\* caller, returns normally or refunds anything.
C22_Exclusive ==
    \A escrow_code \in Codes :
        LET escrow == EscrowOf(escrow_code)
        IN \A key \in ContributionKeys(escrow_code) :
              LET contribution == deserialize_contribution(contributions[key])
              IN /\ escrow.status = "Cancelled" =>
                       /\ ~contribution.withdrawn
                       /\ key \notin DOMAIN withdrawals
                 /\ key \in DOMAIN withdrawals <=> contribution.withdrawn
                 /\ contribution.withdrawn =>
                       /\ escrow.status = "Complete"
                       /\ \A caller \in Accounts, env \in CancelEnvs :
                             LET r == cancel_escrow(World, caller, escrow_code, env)
                             IN /\ r.err # 0
                                /\ Refunds(r.calls) = <<>>

\* In a step: every Contribution is kept, one marked withdrawn stays so, and
\* the step that cancels an escrow refunds no account with a payout from it.
C22_Step ==
    /\ \A key \in DOMAIN contributions :
          /\ key \in DOMAIN contributions'
          /\ deserialize_contribution(contributions[key]).withdrawn =>
                deserialize_contribution(contributions'[key]).withdrawn
    /\ \A escrow_code \in Codes :
          (/\ EscrowOf(escrow_code).status # "Cancelled"
           /\ deserialize_escrow(escrows'[escrow_code]).status = "Cancelled") =>
             /\ last'.op = "cancel_escrow"
             /\ last'.code = escrow_code
             /\ \A i \in 1..Len(Refunds(last'.calls)) :
                   <<escrow_code, Refunds(last'.calls)[i].to>>
                      \notin DOMAIN withdrawals'

\* C22: withdrawn is monotone (once true it is never false again) and
\* excludes a refund: no participant receives both a withdrawal payout and a
\* cancel refund for the same escrow, and a Cancelled escrow has no
\* Contribution marked withdrawn.
C22_WithdrawnExcludesRefund ==
    /\ []C22_Exclusive
    /\ [][C22_Step]_vars

\* The same account has both, but from different escrows: a cancel has just
\* refunded the caller, who has withdrawn from another, Complete escrow.
C22_Witness ==
    /\ last.op = "cancel_escrow"
    /\ EscrowOf(last.code).status = "Cancelled"
    /\ Len(Refunds(last.calls)) = 1
    /\ Refunds(last.calls)[1].to = last.caller
    /\ \E escrow_code \in Codes \ {last.code} :
          /\ EscrowOf(escrow_code).status = "Complete"
          /\ HasContribution(escrow_code, last.caller)
          /\ ContributionOf(escrow_code, last.caller).withdrawn

\* ------------------------------------------------------------------------
\* C23

\* The lifecycle transitions that have happened, counted from what they
\* leave behind: creates, joins, completions, withdrawals and cancels.
Transitions ==
    escrow_counter
    + Cardinality(DOMAIN contributions)
    + Cardinality({c \in Codes : EscrowOf(c).status = "Complete"})
    + Cardinality({key \in DOMAIN contributions :
                      deserialize_contribution(contributions[key]).withdrawn})
    + Cardinality({c \in Codes : EscrowOf(c).status = "Cancelled"})

\* The entries of the event log of one kind.
EventsNamed(event_name) ==
    {key \in DOMAIN events : key[1] = event_name}

\* C23: the event log is append-only with one entry per lifecycle
\* transition: it holds as many entries as creates, joins, completions,
\* withdrawals and cancels have succeeded, also when two transitions of the
\* same kind happen at the same block time.
C23_OneEntryPerTransition ==
    Cardinality(DOMAIN events) = Transitions

\* What the code keeps instead: one entry per kind of event and block time,
\* the one emitted last.
C23_OneEntryPerKindAndTime ==
    /\ Cardinality(DOMAIN events) <= Transitions
    /\ \A key \in DOMAIN events : key[2] <= blocktime
    /\ last.op = "join_escrow" =>
          \E time \in 0..blocktime :
              /\ <<"participant_joined", time>> \in DOMAIN events
              /\ events[<<"participant_joined", time>>]
                    = <<"ParticipantJoined", last.code, last.caller, last.amount,
                        EscrowOf(last.code).joined_count>>

\* Two participants have joined in the same block, and the log holds one
\* ParticipantJoined entry, the second one.
C23_Witness ==
    /\ last.op = "join_escrow"
    /\ EscrowOf(last.code).joined_count = 2
    /\ EscrowOf(last.code).created_timestamp = blocktime
    /\ EventsNamed("participant_joined") = {<<"participant_joined", blocktime>>}
    /\ events[<<"participant_joined", blocktime>>][5] = 2

\* Two participants have joined in different blocks, and the log holds both
\* ParticipantJoined entries.
C23_KeptAcrossBlocks ==
    /\ last.op = "join_escrow"
    /\ EscrowOf(last.code).joined_count = 2
    /\ Cardinality(EventsNamed("participant_joined")) = 2

\* ------------------------------------------------------------------------
\* C24

\* The contract hashes a set_* call is tried with.
HashInputs == Hashes \cup {"H2"}

\* A set_* call by caller leaves the configuration as it is.
ConfigurationKept(caller) ==
    \A contract_hash \in HashInputs :
        /\ set_liquid_staking_contract(World, caller, contract_hash).w = World
        /\ set_scspr_token_contract(World, caller, contract_hash).w = World

\* C24: the liquid-staking and sCSPR token contract configuration can be
\* changed only by an administrator: whoever the administrators are, some
\* account is not one of them, and a set_* call by it leaves the
\* configuration unchanged.
C24_AdminOnly ==
    \E admins \in SUBSET Accounts :
        /\ admins # Accounts
        /\ \A caller \in Accounts \ admins : ConfigurationKept(caller)

\* B, who created nothing, has replaced the staking contract of a contract
\* that holds a participant's stake.
C24_Witness ==
    /\ last.op = "set_liquid_staking_contract"
    /\ last.caller = "B"
    /\ liquid_staking = "H1"
    /\ \E escrow_code \in Codes :
          /\ EscrowOf(escrow_code).creator # "B"
          /\ EscrowOf(escrow_code).joined_count >= 1

\* ------------------------------------------------------------------------
\* C25

\* C25: every escrow that create_escrow persists has total_amount > 0 and
\* num_friends >= 2.
C25_PositiveTarget ==
    \A escrow_code \in Codes :
        /\ EscrowOf(escrow_code).total_amount > 0
        /\ EscrowOf(escrow_code).num_friends >= 2

\* The half the code enforces: at least two participants, for every total
\* create_escrow can be called with.
C25_AtLeastTwo ==
    /\ \A escrow_code \in Codes : EscrowOf(escrow_code).num_friends >= 2
    /\ \A creator \in Accounts, total_amount \in TotalInputs, num_friends \in FriendInputs :
          LET r == create_escrow(World, creator, total_amount, num_friends)
          IN r.err = 0 <=> num_friends >= 2

\* An escrow with nothing to collect is Complete: both participants have
\* joined with an amount of 0.
C25_Witness ==
    /\ last.op = "join_escrow"
    /\ last.amount = 0
    /\ EscrowOf(last.code).total_amount = 0
    /\ EscrowOf(last.code).split_amount = 0
    /\ EscrowOf(last.code).status = "Complete"

\* ------------------------------------------------------------------------
\* C26

\* The accumulated receipts of an escrow in world w.
AccumulatedIn(w, escrow_code) ==
    deserialize_escrow(w.escrows[escrow_code]).accumulated_scspr

\* C26: in every reachable state the accumulated receipts of every escrow
\* equal the sum of scspr_received over its Contributions, and no withdraw
\* and no cancel, by any caller, changes them, whether it returns normally
\* or fails.
C26_AccumulatedReceipts ==
    \A escrow_code \in Codes :
        /\ EscrowOf(escrow_code).accumulated_scspr
              = SeqSum(ReceiptsOf(escrow_code))
        /\ Len(ReceiptsOf(escrow_code)) = Cardinality(ContributionKeys(escrow_code))
        /\ \A caller \in Accounts :
              /\ \A env \in WithdrawEnvs :
                    AccumulatedIn(withdraw(World, caller, escrow_code, env).w,
                                  escrow_code)
                       = EscrowOf(escrow_code).accumulated_scspr
              /\ \A env \in CancelEnvs :
                    AccumulatedIn(cancel_escrow(World, caller, escrow_code, env).w,
                                  escrow_code)
                       = EscrowOf(escrow_code).accumulated_scspr

\* A cancel has refunded two participants whose stakes of 333 returned
\* different receipts, and the escrow still accounts for their sum.
C26_Witness ==
    /\ last.op = "cancel_escrow"
    /\ EscrowOf(last.code).status = "Cancelled"
    /\ Len(ReceiptsOf(last.code)) = 2
    /\ ReceiptsOf(last.code)[1] # ReceiptsOf(last.code)[2]
    /\ EscrowOf(last.code).accumulated_scspr
          = ReceiptsOf(last.code)[1] + ReceiptsOf(last.code)[2]
    /\ EscrowOf(last.code).accumulated_scspr > 0

\* A withdrawal has been paid, and the escrow still accounts for the receipts
\* of both participants.
C26_AfterWithdraw ==
    /\ last.op = "withdraw"
    /\ Len(ReceiptsOf(last.code)) = 2
    /\ EscrowOf(last.code).accumulated_scspr = SeqSum(ReceiptsOf(last.code))
    /\ EscrowOf(last.code).accumulated_scspr > 0

\* ------------------------------------------------------------------------
\* C27

\* The invocation of a step announces the completion of an escrow.
Announces(emitted, escrow_code) ==
    \E i \in 1..Len(emitted) :
        /\ emitted[i][1] = "EscrowCompleted"
        /\ emitted[i][2] = escrow_code

\* In a step that is an invocation: EscrowCompleted is emitted for an escrow
\* exactly when its status turns from Open to Complete; the invocation is
\* then the join that fills the last slot, and it emits ParticipantJoined with
\* joined_count = num_friends first and EscrowCompleted second, nothing else,
\* and the log holds both; a Complete escrow stays Complete.
C27_Step(escrow_code) ==
    LET before == EscrowOf(escrow_code)
        after == deserialize_escrow(escrows'[escrow_code])
        emitted == last'.emitted
        completes == before.status = "Open" /\ after.status = "Complete"
    IN /\ before.status = "Complete" => after.status = "Complete"
       /\ blocktime' = blocktime =>
             /\ Announces(emitted, escrow_code) <=> completes
             /\ completes =>
                   /\ last'.op = "join_escrow"
                   /\ last'.code = escrow_code
                   /\ before.joined_count + 1 = before.num_friends
                   /\ after.joined_count = after.num_friends
                   /\ emitted =
                        << <<"ParticipantJoined", escrow_code, last'.caller,
                             last'.amount, after.num_friends>>,
                           <<"EscrowCompleted", escrow_code,
                             after.accumulated_scspr>> >>
                   /\ events'[<<"participant_joined", blocktime>>] = emitted[1]
                   /\ events'[<<"escrow_completed", blocktime>>] = emitted[2]

\* In a state: a join that returns normally announces the completion exactly
\* when it fills the last slot of an Open escrow, after its ParticipantJoined
\* event; no join on a Complete or Cancelled escrow emits anything, and no
\* other entry point announces a completion.
C27_OnlyTheFinalJoin ==
    \A escrow_code \in Codes, caller \in Accounts :
        LET escrow == EscrowOf(escrow_code)
        IN /\ \A amount \in AmountInputs(escrow_code), env \in JoinEnvs :
                 LET r == join_escrow(World, caller, escrow_code, amount, env)
                     final == /\ r.err = 0
                              /\ escrow.joined_count + 1 = escrow.num_friends
                 IN /\ r.err # 0 => r.w.emitted = <<>>
                    /\ escrow.status # "Open" => r.err # 0
                    /\ r.err = 0 =>
                          /\ r.w.emitted[1][1] = "ParticipantJoined"
                          /\ r.w.emitted[1][5] = escrow.joined_count + 1
                          /\ Len(r.w.emitted) = IF final THEN 2 ELSE 1
                    /\ Announces(r.w.emitted, escrow_code) <=> final
                    /\ final => r.w.emitted[2][1] = "EscrowCompleted"
           /\ \A env \in WithdrawEnvs :
                 \A c \in Codes :
                     ~Announces(withdraw(World, caller, escrow_code, env).w.emitted, c)
           /\ \A env \in CancelEnvs :
                 \A c \in Codes :
                     ~Announces(cancel_escrow(World, caller, escrow_code, env).w.emitted, c)

\* C27: the final join of an escrow appends the ParticipantJoined event,
\* carrying joined_count = num_friends, before the EscrowCompleted event; and
\* EscrowCompleted is appended exactly once per escrow, only by that join:
\* only in the step that turns the status from Open to Complete, which
\* happens at most once because Complete is never left.
C27_CompletedOnce ==
    /\ []C27_OnlyTheFinalJoin
    /\ [][\A escrow_code \in Codes : C27_Step(escrow_code)]_vars

\* The third of three participants has just joined: ParticipantJoined with
\* joined_count 3, then EscrowCompleted with the receipts of all three.
C27_Witness ==
    /\ last.op = "join_escrow"
    /\ EscrowOf(last.code).num_friends = 3
    /\ EscrowOf(last.code).status = "Complete"
    /\ Len(last.emitted) = 2
    /\ last.emitted[1] = <<"ParticipantJoined", last.code, last.caller, 333, 3>>
    /\ last.emitted[2] = <<"EscrowCompleted", last.code,
                           SeqSum(ReceiptsOf(last.code))>>
    /\ liquid_staking # None

====
